---- MODULE Spec2Model ----
(***************************************************************************)
(* A model of the influencer resolution-and-enrichment pipeline:          *)
(*   - database.py: the flat JSON profile store                           *)
(*   - unified_data_manager.py: find_influencer_anywhere (async and sync)  *)
(*   - main.py: run_workflow                                               *)
(*   - api_clients.py / workflow_logic.py: the helpers those call          *)
(* Strings are TLA+ strings; time is counted in seconds.                   *)
(***************************************************************************)
EXTENDS Integers, Sequences, FiniteSets, TLC

(***************************************************************************)
(* Bounds of the model.                                                    *)
(***************************************************************************)
\* requests served in one behaviour
MaxRuns == 2
\* clock advances between requests
MaxTicks == 1

(***************************************************************************)
(* Program constants.                                                      *)
(***************************************************************************)
\* timedelta(days=7)
StaleDays == 7
SecondsPerDay == 86400
StaleAge == StaleDays * SecondsPerDay

\* None where a string is expected, and where a dict is expected
None == "<None>"
NoRecord == [none |-> TRUE]
\* an absent number, and no match of a number pattern
NoNumber == -1
\* a last_scraped that datetime.fromisoformat rejects
InvalidTime == -1

(***************************************************************************)
(* String helpers: str.lower, str.title, str.replace, str.strip,           *)
(* str.split, the "in" operator, as Python computes them.                  *)
(***************************************************************************)
UpperLetters ==
  <<"A", "B", "C", "D", "E", "F", "G", "H", "I", "J", "K", "L", "M", "N", "O", "P", "Q", "R", "S", "T", "U", "V", "W", "X", "Y", "Z">>
LowerLetters ==
  <<"a", "b", "c", "d", "e", "f", "g", "h", "i", "j", "k", "l", "m", "n", "o", "p", "q", "r", "s", "t", "u", "v", "w", "x", "y", "z">>

IndexIn(c, seq) ==
  IF \E i \in 1..Len(seq) : seq[i] = c
  THEN CHOOSE i \in 1..Len(seq) : seq[i] = c
  ELSE 0

ToLower == [c \in {UpperLetters[i] : i \in 1..26} |-> LowerLetters[IndexIn(c, UpperLetters)]]

ToUpper == [c \in {LowerLetters[i] : i \in 1..26} |-> UpperLetters[IndexIn(c, LowerLetters)]]

LowerChar(c) == IF c \in DOMAIN ToLower THEN ToLower[c] ELSE c

UpperChar(c) == IF c \in DOMAIN ToUpper THEN ToUpper[c] ELSE c

IsLetter(c) == c \in DOMAIN ToLower \/ c \in DOMAIN ToUpper

CharAt(s, i) == SubSeq(s, i, i)

Tail1(s) == SubSeq(s, 2, Len(s))

RECURSIVE Lower(_)
Lower(s) == IF s = "" THEN "" ELSE LowerChar(CharAt(s, 1)) \o Lower(Tail1(s))

\* str.title(): a letter that follows a non-letter is upper-cased, the others lower-cased
RECURSIVE TitleFrom(_, _)
TitleFrom(s, prevLetter) ==
  IF s = "" THEN ""
  ELSE LET c == CharAt(s, 1)
       IN (IF prevLetter THEN LowerChar(c) ELSE UpperChar(c))
            \o TitleFrom(Tail1(s), IsLetter(c))

Title(s) == TitleFrom(s, FALSE)

StartsWith(s, p) == Len(s) >= Len(p) /\ SubSeq(s, 1, Len(p)) = p

EndsWith(s, p) == Len(s) >= Len(p) /\ SubSeq(s, Len(s) - Len(p) + 1, Len(s)) = p

\* s.replace(pat, r), pat not empty
RECURSIVE Replace(_, _, _)
Replace(s, pat, r) ==
  IF s = "" THEN ""
  ELSE IF StartsWith(s, pat) THEN r \o Replace(SubSeq(s, Len(pat) + 1, Len(s)), pat, r)
  ELSE CharAt(s, 1) \o Replace(Tail1(s), pat, r)

ReplaceSpace(s, r) == Replace(s, " ", r)

RECURSIVE LStrip(_)
LStrip(s) == IF s # "" /\ CharAt(s, 1) = " " THEN LStrip(Tail1(s)) ELSE s

RECURSIVE RStrip(_)
RStrip(s) ==
  IF s # "" /\ CharAt(s, Len(s)) = " " THEN RStrip(SubSeq(s, 1, Len(s) - 1)) ELSE s

Strip(s) == RStrip(LStrip(s))

\* sub in s
Contains(sub, s) ==
  \E i \in 1..(Len(s) - Len(sub) + 1) : SubSeq(s, i, i + Len(sub) - 1) = sub

\* s.split(sep) for a one-character sep, empty pieces kept
RECURSIVE SplitOn(_, _, _)
SplitOn(s, sep, cur) ==
  IF s = "" THEN <<cur>>
  ELSE IF CharAt(s, 1) = sep THEN <<cur>> \o SplitOn(Tail1(s), sep, "")
  ELSE SplitOn(Tail1(s), sep, cur \o CharAt(s, 1))

Split(s, sep) == SplitOn(s, sep, "")

NonEmpty(seq) == SelectSeq(seq, LAMBDA x : x # "")

\* s.split(): on whitespace, empty pieces dropped
Words(s) == NonEmpty(Split(s, " "))

\* list(dict.fromkeys(seq)): duplicates dropped, first occurrences kept in order
RECURSIVE Dedupe(_)
Dedupe(seq) ==
  IF seq = <<>> THEN <<>>
  ELSE LET init == Dedupe(SubSeq(seq, 1, Len(seq) - 1))
           x == seq[Len(seq)]
       IN IF \E i \in 1..Len(init) : init[i] = x THEN init ELSE Append(init, x)

Range(seq) == {seq[i] : i \in 1..Len(seq)}

MapSeq(seq, F(_)) == [i \in 1..Len(seq) |-> F(seq[i])]

(***************************************************************************)
(* Numbers in LLM replies.  A float is kept in hundredths.                 *)
(***************************************************************************)
Digits == <<"0", "1", "2", "3", "4", "5", "6", "7", "8", "9">>

IsDigit(c) == IndexIn(c, Digits) > 0

DigitVal(c) == IndexIn(c, Digits) - 1

\* the longest prefix of s made of digits
RECURSIVE LeadingDigits(_)
LeadingDigits(s) ==
  IF s # "" /\ IsDigit(CharAt(s, 1)) THEN CharAt(s, 1) \o LeadingDigits(Tail1(s)) ELSE ""

RECURSIVE ParseInt(_)
ParseInt(ds) ==
  IF ds = "" THEN 0 ELSE ParseInt(SubSeq(ds, 1, Len(ds) - 1)) * 10 + DigitVal(CharAt(ds, Len(ds)))

\* a fraction's digits as hundredths: "9" is 90, "75" is 75, further digits are cut
FractionHundredths(ds) ==
  (IF Len(ds) >= 1 THEN DigitVal(CharAt(ds, 1)) * 10 ELSE 0)
  + (IF Len(ds) >= 2 THEN DigitVal(CharAt(ds, 2)) ELSE 0)

\* re.search(r'(\d*\.?\d+)', s), then float(): -1 when nothing matches
RECURSIVE SearchNumber(_)
SearchNumber(s) ==
  IF s = "" THEN NoNumber
  ELSE LET whole == LeadingDigits(s)
           rest == SubSeq(s, Len(whole) + 1, Len(s))
           frac == IF rest # "" /\ CharAt(rest, 1) = "." THEN LeadingDigits(Tail1(rest)) ELSE ""
       IN IF frac # "" THEN ParseInt(whole) * 100 + FractionHundredths(frac)
          ELSE IF whole # "" THEN ParseInt(whole) * 100
          ELSE SearchNumber(Tail1(s))

Min(a, b) == IF a < b THEN a ELSE b
Max(a, b) == IF a > b THEN a ELSE b

(***************************************************************************)
(* api_clients.py: the name resolver                                       *)
(***************************************************************************)
non_name_indicators ==
  << "review", "best", "top", "how to", "tutorial", "guide", "tips",
     "laptop", "phone", "camera", "product", "brand", "company",
     "vs", "comparison", "price", "buy", "sell", "discount", "deal",
     "unboxing", "specs", "features", "gaming", "tech", "mobile",
     "what is", "which is", "where to", "when to", "why",
     "promote my", "advertise my", "marketing for", "influencers for" >>

\* str.isalpha(), str.isalnum()
IsAlpha(w) == w # "" /\ \A i \in 1..Len(w) : IsLetter(CharAt(w, i))
IsAlnum(w) == w # "" /\ \A i \in 1..Len(w) : IsLetter(CharAt(w, i)) \/ IsDigit(CharAt(w, i))

\* the heuristic without the list of topic words
_looks_like_name_shape_only(q) ==
  LET words == Words(Lower(Strip(q)))
      n == Len(words)
  IN IF n = 0 \/ n > 4 THEN FALSE
     ELSE IF n = 1
       THEN /\ IsAlpha(words[1]) \/ IsAlnum(Replace(Replace(words[1], "_", ""), ".", ""))
            /\ 3 <= Len(words[1]) /\ Len(words[1]) <= 20
     ELSE IF n \in {2, 3}
       THEN \A i \in 1..n :
              /\ IsAlpha(words[i]) \/ IsAlpha(Replace(words[i], "'", ""))
              /\ 2 <= Len(words[i]) /\ Len(words[i]) <= 15
     ELSE \A i \in 1..n : IsAlpha(words[i]) /\ 2 <= Len(words[i]) /\ Len(words[i]) <= 12

\* the heuristic with one length limit for every number of words
_looks_like_name_one_limit(q) ==
  LET query == Lower(Strip(q))
      words == Words(query)
      n == Len(words)
  IN IF \E i \in 1..Len(non_name_indicators) : Contains(non_name_indicators[i], query)
     THEN FALSE
     ELSE IF n = 0 \/ n > 4 THEN FALSE
     ELSE \A i \in 1..n : IsAlpha(words[i]) /\ 3 <= Len(words[i]) /\ Len(words[i]) <= 12

_looks_like_name(q) ==
  LET query == Lower(Strip(q))
      words == Words(query)
      n == Len(words)
  IN IF \E i \in 1..Len(non_name_indicators) : Contains(non_name_indicators[i], query)
     THEN FALSE
     ELSE IF n = 0 \/ n > 4 THEN FALSE
     ELSE IF n = 1
       THEN /\ IsAlpha(words[1]) \/ IsAlnum(Replace(Replace(words[1], "_", ""), ".", ""))
            /\ 3 <= Len(words[1]) /\ Len(words[1]) <= 20
     ELSE IF n \in {2, 3}
       THEN \A i \in 1..n :
              /\ IsAlpha(words[i]) \/ IsAlpha(Replace(words[i], "'", ""))
              /\ 2 <= Len(words[i]) /\ Len(words[i]) <= 15
     ELSE \A i \in 1..n : IsAlpha(words[i]) /\ 2 <= Len(words[i]) /\ Len(words[i]) <= 12

\* a parser that takes the confidence as it is written
SpellingLine_unclamped(result, line) ==
  IF StartsWith(line, "Confidence:")
  THEN LET conf == SearchNumber(Strip(Replace(line, "Confidence:", "")))
       IN IF conf < 0 THEN result ELSE [result EXCEPT !.confidence = conf]
  ELSE IF StartsWith(line, "Is Influencer:")
  THEN [result EXCEPT !.is_influencer =
          Lower(Strip(Replace(line, "Is Influencer:", ""))) \in {"yes", "true", "1", "y"}]
  ELSE result

\* one line of the reply, applied to the result so far
SpellingLine(result, line) ==
  IF StartsWith(line, "Is Influencer:")
  THEN [result EXCEPT !.is_influencer =
          Lower(Strip(Replace(line, "Is Influencer:", ""))) \in {"yes", "true", "1", "y"}]
  ELSE IF StartsWith(line, "Corrected Name:")
  THEN LET corrected == Strip(Replace(line, "Corrected Name:", ""))
       IN IF corrected # "" /\ Lower(corrected) # "null"
          THEN [result EXCEPT !.corrected_name = corrected] ELSE result
  ELSE IF StartsWith(line, "Confidence:")
  THEN LET conf == SearchNumber(Strip(Replace(line, "Confidence:", "")))
       IN IF conf < 0 THEN result
          ELSE [result EXCEPT !.confidence =
                  Min(Max(IF conf > 100 THEN conf \div 100 ELSE conf, 0), 100)]
  ELSE IF StartsWith(line, "Reasoning:")
  THEN [result EXCEPT !.reasoning = Strip(Replace(line, "Reasoning:", ""))]
  ELSE result

RECURSIVE FoldLines(_, _, _)
FoldLines(F(_, _), acc, lines) ==
  IF lines = <<>> THEN acc ELSE FoldLines(F, F(acc, lines[1]), Tail(lines))

\* the lines of a reply text: stripped, empty ones dropped
ReplyLines(response_text) == NonEmpty(MapSeq(response_text, Strip))

\* parse_spelling_correction_response; response_text is the reply split at '\n'
parse_spelling_correction_response(response_text, original_query) ==
  FoldLines(SpellingLine,
            [ is_influencer |-> TRUE, corrected_name |-> original_query,
              original_query |-> original_query, confidence |-> 50,
              reasoning |-> "Parsing failed, defaulted to influencer" ],
            ReplyLines(response_text))

\* spell_correct_influencer_name and spell_correct_influencer_name_async, given
\* what message_model returned (NoReply when it returned None)
NoReply == <<>>

\* the resolver without its safety check
spell_correct_influencer_name_no_override(query, response) ==
  IF response # NoReply
  THEN parse_spelling_correction_response(response, query)
  ELSE [ is_influencer |-> _looks_like_name(query), corrected_name |-> query,
         original_query |-> query,
         confidence |-> IF _looks_like_name(query) THEN 70 ELSE 20,
         reasoning |-> "AI spelling correction failed, using heuristic name detection" ]

\* the resolver falling back on the parser's permissive defaults
spell_correct_influencer_name_default_fallback(query, response) ==
  LET parsed == parse_spelling_correction_response(response, query)
  IN IF ~parsed.is_influencer /\ _looks_like_name(query)
     THEN [parsed EXCEPT !.is_influencer = TRUE, !.confidence = 75,
             !.reasoning = "Overridden by heuristic: Appears to be a person's name"]
     ELSE parsed

spell_correct_influencer_name(query, response) ==
  IF response # NoReply
  THEN LET parsed == parse_spelling_correction_response(response, query)
       IN IF ~parsed.is_influencer /\ _looks_like_name(query)
          THEN [parsed EXCEPT !.is_influencer = TRUE, !.confidence = 75,
                  !.reasoning = "Overridden by heuristic: Appears to be a person's name"]
          ELSE parsed
  ELSE [ is_influencer |-> _looks_like_name(query), corrected_name |-> query,
         original_query |-> query,
         confidence |-> IF _looks_like_name(query) THEN 70 ELSE 20,
         reasoning |-> "AI spelling correction failed, using heuristic name detection" ]

(***************************************************************************)
(* api_clients.py: normalization                                           *)
(***************************************************************************)
\* line.split(':', 1)[1]
AfterFirstColon(line) ==
  LET i == CHOOSE k \in 1..Len(line) :
             CharAt(line, k) = ":" /\ \A j \in 1..(k - 1) : CharAt(line, j) # ":"
  IN SubSeq(line, i + 1, Len(line))

\* one line of the reply, applied to <<result, current_section>>
NormalizationLine(acc, line) ==
  LET res == acc[1]
      current_section == acc[2]
      item == Strip(SubSeq(line, 3, Len(line)))
  IN IF Contains("search name:", Lower(line))
     THEN LET name == Strip(AfterFirstColon(line))
          IN IF name # "" /\ Len(name) < 100
             THEN <<[res EXCEPT !.search_name = name], current_section>> ELSE acc
     ELSE IF Lower(line) = "aliases:" THEN <<res, "aliases">>
     ELSE IF Lower(line) = "handles:" THEN <<res, "handles">>
     ELSE IF StartsWith(line, "- ") /\ current_section # None
       THEN IF /\ Len(item) < 50 /\ Len(Words(item)) <= 4
               /\ Lower(item) \notin {"none known", "none", "n/a"}
            THEN <<[res EXCEPT ![current_section] = Append(@, item)], current_section>>
            ELSE acc
     ELSE acc

\* parse_normalization_response; response_text is the reply split at '\n'
parse_normalization_response(response_text, original_query) ==
  LET start == [ search_name |-> Title(original_query),
                 aliases |-> <<Lower(original_query), Title(original_query)>>,
                 handles |-> << Lower(ReplaceSpace(original_query, "")),
                                Lower(ReplaceSpace(original_query, "_")) >> ]
      parsed == IF response_text = <<>> THEN start
                ELSE FoldLines(NormalizationLine, <<start, None>>, ReplyLines(response_text))[1]
      base == Lower(ReplaceSpace(original_query, ""))
      withAliases ==
        IF Len(parsed.aliases) < 2
        THEN [parsed EXCEPT !.aliases = << Lower(original_query), Title(original_query),
                                           ReplaceSpace(original_query, "") >>]
        ELSE parsed
  IN IF Len(withAliases.handles) < 2
     THEN [withAliases EXCEPT !.handles =
             << base, base \o "official", ReplaceSpace(base, "_"),
                ReplaceSpace(base, "."), base \o "22" >>]
     ELSE withAliases

\* enhanced_influencer_normalization, given what message_model returned
enhanced_influencer_normalization(query, response) ==
  IF response # NoReply THEN parse_normalization_response(response, query)
  ELSE [ search_name |-> Title(query),
         aliases |-> << Lower(query), Title(query), ReplaceSpace(query, ""),
                        ReplaceSpace(query, "_") >>,
         handles |-> << Lower(ReplaceSpace(query, "")), Lower(ReplaceSpace(query, "_")),
                        Lower(ReplaceSpace(query, ".")),
                        Lower(ReplaceSpace(query, "")) \o "official",
                        Lower(ReplaceSpace(query, "")) \o "22" >> ]

(***************************************************************************)
(* unified_data_manager.py: the local lookups                              *)
(***************************************************************************)
\* the search_terms list of find_influencer_anywhere
SearchTerms(influencer_name, corrected_name, normalized) ==
  Dedupe(NonEmpty(MapSeq(
    <<corrected_name, normalized.search_name>> \o normalized.aliases
       \o normalized.handles \o <<influencer_name>>, Strip)))

_generate_username_variations(name) ==
  LET name_clean == Strip(Lower(name))
      joined == ReplaceSpace(name_clean, "")
  IN Dedupe(<< joined, ReplaceSpace(name_clean, "."), ReplaceSpace(name_clean, "_"),
               joined \o "22", joined \o "official", joined \o "real",
               "official" \o joined, "real" \o joined, joined \o "vlogs",
               joined \o "youtube" >>)

\* the first index of seq that satisfies P, 0 when none does
FirstIndex(seq, P(_)) ==
  LET hits == {i \in 1..Len(seq) : P(seq[i])}
  IN IF hits = {} THEN 0 ELSE CHOOSE i \in hits : \A j \in hits : i <= j

\* any(word in name_words for word in search_words if len(word) > 2)
WordMatch(search_lower, name_words) ==
  /\ Len(Words(search_lower)) > 1
  /\ \E i \in 1..Len(Words(search_lower)) :
       /\ Len(Words(search_lower)[i]) > 2
       /\ Words(search_lower)[i] \in Range(name_words)

\* the name tests _search_main_database applies to one stored profile
MainNameMatch(search_lower, basic_info) ==
  LET stored_name == Lower(basic_info.name)
      stored_full_name == Lower(basic_info.full_name)
  IN \/ search_lower = stored_name \/ search_lower = stored_full_name
     \/ /\ stored_name # ""
        /\ Contains(search_lower, stored_name) \/ Contains(stored_name, search_lower)
     \/ /\ stored_full_name # ""
        /\ Contains(search_lower, stored_full_name) \/ Contains(stored_full_name, search_lower)
     \/ WordMatch(search_lower, Words(stored_name) \o Words(stored_full_name))

\* the embeddings summaries file influencer_embeddings.json
InfluencerData ==
  << [ username |-> "JoLee", data |-> [ name |-> "Jo Lee" ] ] >>

\* the tests _search_embeddings_database applies to one summary
EmbeddingsMatch(search_term, entry) ==
  LET search_lower == Lower(search_term)
      stored_name == Lower(entry.data.name)
      username_lower == Lower(entry.username)
  IN \/ username_lower = search_lower
     \/ username_lower \in Range(MapSeq(_generate_username_variations(search_term), Lower))
     \/ /\ stored_name # ""
        /\ \/ search_lower = stored_name
           \/ Contains(search_lower, stored_name) \/ Contains(stored_name, search_lower)
           \/ WordMatch(search_lower, Words(stored_name))

\* _convert_embeddings_to_main_format
_convert_embeddings_to_main_format(embeddings_data, username) ==
  [ basic_info |-> [ username |-> username, name |-> embeddings_data.name,
                     full_name |-> embeddings_data.name,
                     instagram_url |-> "https://instagram.com/" \o username \o "/" ],
    posts |-> [ total_posts |-> 0, organic_posts |-> <<>>, sponsored_posts |-> <<>>,
                all_posts |-> <<>> ],
    analysis |-> [ metrics |-> NoRecord,
                   scores |-> [ Authenticity |-> 750, BrandSafety |-> 850,
                                AudienceMatch |-> 700, ContentQuality |-> 750 ] ],
    metadata |-> [ last_scraped |-> InvalidTime, original_query |-> "" ] ]

(***************************************************************************)
(* workflow_logic.py: the candidate filter                                 *)
(***************************************************************************)
\* the first index at which pat occurs in s, 0 when it does not
Find(s, pat) ==
  IF Contains(pat, s)
  THEN CHOOSE i \in 1..Len(s) :
         /\ SubSeq(s, i, i + Len(pat) - 1) = pat
         /\ \A j \in 1..(i - 1) : SubSeq(s, j, j + Len(pat) - 1) # pat
  ELSE 0

\* s.rstrip('/'), s.lstrip('/')
RECURSIVE RStripSlash(_)
RStripSlash(s) == IF EndsWith(s, "/") THEN RStripSlash(SubSeq(s, 1, Len(s) - 1)) ELSE s

RECURSIVE LStripSlash(_)
LStripSlash(s) == IF StartsWith(s, "/") THEN LStripSlash(Tail1(s)) ELSE s

\* str(link).split('?')[0].rstrip('/')
CleanLink(link) == RStripSlash(Split(link, "?")[1])

\* urlparse(url): a netloc is read only after "//"; hostname is None without one
UrlParse(url) ==
  LET k == Find(url, "//")
      hasNetloc == k > 0 /\ (k = 1 \/ CharAt(url, k - 1) = ":")
      rest == IF hasNetloc THEN SubSeq(url, k + 2, Len(url)) ELSE url
      slash == Find(rest, "/")
      netloc == IF ~hasNetloc THEN ""
                ELSE IF slash = 0 THEN rest ELSE SubSeq(rest, 1, slash - 1)
      path == IF ~hasNetloc THEN rest
              ELSE IF slash = 0 THEN "" ELSE SubSeq(rest, slash, Len(rest))
  IN [ hostname |-> IF netloc = "" THEN None ELSE Lower(netloc),
       path |-> Split(path, "#")[1] ]

\* re.match(r"^[a-z0-9._]+$", user, re.IGNORECASE)
IsHandle(user) ==
  /\ user # ""
  /\ \A i \in 1..Len(user) :
       IsLetter(CharAt(user, i)) \/ IsDigit(CharAt(user, i)) \/ CharAt(user, i) \in {".", "_"}

\* an organic result that is no dict: item.get raises AttributeError
NotADict == [link |-> "<not a dict>", title |-> "<not a dict>", snippet |-> "<not a dict>"]

IsDict(item) == item # NotADict

\* urlparse(url) raises ValueError("Invalid IPv6 URL") when the netloc has one
\* bracket without the other
UrlParseRaises(url) ==
  LET k == Find(url, "//")
      hasNetloc == k > 0 /\ (k = 1 \/ CharAt(url, k - 1) = ":")
      rest == IF hasNetloc THEN SubSeq(url, k + 2, Len(url)) ELSE ""
      slash == Find(rest, "/")
      netloc == IF slash = 0 THEN rest ELSE SubSeq(rest, 1, slash - 1)
  IN Contains("[", netloc) # Contains("]", netloc)

\* the handle of an organic result that passes the strict filter, None otherwise;
\* an exception inside the try of the loop body skips the result as well
StrictHandle(item) ==
  LET url == CleanLink(item.link)
      parsed_url == UrlParse(url)
      path_segments == NonEmpty(Split(parsed_url.path, "/"))
  IN IF ~IsDict(item) THEN None
     ELSE IF url = "" THEN None
     ELSE IF UrlParseRaises(url) THEN None
     ELSE IF parsed_url.hostname = None \/ ~Contains("instagram.com", parsed_url.hostname)
       THEN None
     ELSE IF Len(path_segments) # 1 THEN None
     ELSE IF ~IsHandle(path_segments[1]) THEN None
     ELSE path_segments[1]

\* the loop with a seen-set of handles as written in the links
RECURSIVE FilterLoop_case_sensitive(_, _)
FilterLoop_case_sensitive(organic_results, n) ==
  IF n = 0 THEN <<{}, <<>>>>
  ELSE LET before == FilterLoop_case_sensitive(organic_results, n - 1)
           item == organic_results[n]
           user == StrictHandle(item)
       IN IF user = None \/ user \in before[1] THEN before
          ELSE << before[1] \cup {user},
                  Append(before[2], [ title |-> item.title, url |-> CleanLink(item.link),
                                      snippet |-> item.snippet, fallback |-> FALSE ]) >>

\* the loop over organic_results: <<seen, candidates>> after the first n results
RECURSIVE FilterLoop(_, _)
FilterLoop(organic_results, n) ==
  IF n = 0 THEN <<{}, <<>>>>
  ELSE LET before == FilterLoop(organic_results, n - 1)
           item == organic_results[n]
           user == StrictHandle(item)
       IN IF user = None \/ Lower(user) \in before[1] THEN before
          ELSE << before[1] \cup {Lower(user)},
                  Append(before[2], [ title |-> item.title, url |-> CleanLink(item.link),
                                      snippet |-> item.snippet, fallback |-> FALSE ]) >>

\* a fallback that takes the first result whatever its link
FilterCandidates_first_result(organic_results) ==
  LET candidates == FilterLoop(organic_results, Len(organic_results))[2]
  IN IF candidates = <<>> /\ organic_results # <<>>
     THEN << [ title |-> organic_results[1].title,
               url |-> CleanLink(organic_results[1].link),
               snippet |-> organic_results[1].snippet, fallback |-> TRUE ] >>
     ELSE candidates

\* build_search_query_and_filter_candidates: the candidates it returns
FilterCandidates(organic_results) ==
  LET candidates == FilterLoop(organic_results, Len(organic_results))[2]
      first_ig == FirstIndex(organic_results, LAMBDA i : Contains("instagram.com/", i.link))
  IN IF candidates = <<>> /\ organic_results # <<>> /\ first_ig > 0
     THEN << [ title |-> organic_results[first_ig].title,
               url |-> CleanLink(organic_results[first_ig].link),
               snippet |-> organic_results[first_ig].snippet, fallback |-> TRUE ] >>
     ELSE candidates

\* the fallback pass, next(i for i in organic_results if 'instagram.com/' in
\* str(i.get('link', ''))), is outside the try: it raises at a result that is
\* no dict when no result before it has the profile domain
FallbackRaises(organic_results) ==
  /\ FilterLoop(organic_results, Len(organic_results))[2] = <<>>
  /\ \E i \in 1..Len(organic_results) :
       /\ ~IsDict(organic_results[i])
       /\ \A j \in 1..(i - 1) : ~Contains("instagram.com/", organic_results[j].link)

\* build_search_query_and_filter_candidates: raised, or the candidates
build_search_query_and_filter_candidates(organic_results) ==
  IF FallbackRaises(organic_results) THEN [raised |-> TRUE, candidates |-> <<>>]
  ELSE [raised |-> FALSE, candidates |-> FilterCandidates(organic_results)]

\* build_search_query_and_filter_candidates: the search string it returns
SearchQuery(norm_data, fallback_query) ==
  LET terms == Dedupe(SelectSeq(<<Strip(norm_data.search_name)>> \o norm_data.aliases
                                   \o norm_data.handles,
                                LAMBDA t : Strip(t) # ""))
      Join[n \in 0..Len(terms)] ==
        IF n = 0 THEN "" ELSE IF n = 1 THEN terms[1] ELSE Join[n - 1] \o " OR " \o terms[n]
  IN IF terms # <<>> THEN Join[Len(terms)] ELSE fallback_query

(***************************************************************************)
(* api_clients.py / workflow_logic.py: profile selection                   *)
(***************************************************************************)
\* one line of the reply, applied to the result so far; an absent key is None
SelectionLine(result, line) ==
  IF StartsWith(line, "Name:")
  THEN [result EXCEPT !.name = Strip(Replace(line, "Name:", ""))]
  ELSE IF StartsWith(line, "Username:")
  THEN [result EXCEPT !.username = Strip(Replace(line, "Username:", ""))]
  ELSE IF StartsWith(line, "Instagram URL:")
  THEN [result EXCEPT !.instagram_url = Strip(Replace(line, "Instagram URL:", ""))]
  ELSE IF StartsWith(line, "Confidence:")
  THEN LET conf == SearchNumber(Strip(Replace(line, "Confidence:", "")))
       IN [result EXCEPT !.confidence = IF conf = NoNumber THEN 50 ELSE conf]
  ELSE result

\* parse_profile_selection_response; response_text is the reply split at '\n'
parse_profile_selection_response(response_text) ==
  FoldLines(SelectionLine,
            [ name |-> None, username |-> None, instagram_url |-> None,
              confidence |-> NoNumber ],
            ReplyLines(response_text))

\* re.match(r"^https?:\/\/", url, re.IGNORECASE)
HasScheme(url) == StartsWith(Lower(url), "http://") \/ StartsWith(Lower(url), "https://")

\* re.search(r"instagram\.com\/([^\/?#]+)", url, re.IGNORECASE).group(1), or None
RECURSIVE UntilDelimiter(_)
UntilDelimiter(s) ==
  IF s = "" \/ CharAt(s, 1) \in {"/", "?", "#"} THEN ""
  ELSE CharAt(s, 1) \o UntilDelimiter(Tail1(s))

RECURSIVE UrlUsername(_)
UrlUsername(url) ==
  LET k == Find(Lower(url), "instagram.com/")
      after == SubSeq(url, k + 14, Len(url))
  IN IF k = 0 THEN None
     ELSE IF UntilDelimiter(after) # "" THEN UntilDelimiter(after)
     ELSE UrlUsername(SubSeq(url, k + 1, Len(url)))

\* format_profile_data(selected_profile, original_query)
format_profile_data(selected_profile, original_query) ==
  LET given == IF selected_profile.instagram_url = None THEN ""
               ELSE selected_profile.instagram_url
      schemed == IF HasScheme(given) THEN given ELSE "https://" \o LStripSlash(given)
      url == IF given = "" THEN ""
             ELSE IF EndsWith(schemed, "/") THEN schemed ELSE schemed \o "/"
  IN [ input |-> original_query,
       name |-> IF selected_profile.name = None THEN "" ELSE selected_profile.name,
       full_name |-> "",
       username |-> IF url = "" THEN None ELSE UrlUsername(url),
       instagram_url |-> url,
       confidence |-> IF selected_profile.confidence = NoNumber THEN 0
                      ELSE selected_profile.confidence ]

\* the selected_profile run_workflow falls back to when the selection LLM fails
FirstCandidateProfile(candidates, chat_message) ==
  LET parts == Split(candidates[1].url, "/")
  IN [ name |-> chat_message, username |-> parts[Len(parts)],
       instagram_url |-> candidates[1].url, confidence |-> 50 ]

(***************************************************************************)
(* api_clients.py: scraping.  A response is the item list the scraper      *)
(* returned, empty when the call failed or found nothing.                  *)
(***************************************************************************)
\* the profile dict built from the first item of a profile-scraper response
ScrapedProfile(username, item) ==
  [ username |-> IF item.username = None THEN username ELSE item.username,
    name |-> item.fullName, full_name |-> item.fullName,
    instagram_url |-> "https://instagram.com/" \o username \o "/" ]

\* scrape_profile_info_only / scrape_profile_info_only_async
scrape_profile_info_only(username, response) ==
  IF response = <<>> THEN NoRecord ELSE ScrapedProfile(username, response[1])

\* scrape_instagram_posts_primary / scrape_instagram_posts_primary_async
scrape_instagram_posts_primary(username, response) == response

\* scrape_profile_and_posts_alternative: <<profile, posts>>
scrape_profile_and_posts_alternative(username, response) ==
  IF response = <<>> THEN <<NoRecord, <<>>>>
  ELSE <<ScrapedProfile(username, response[1]), response[1].latestPosts>>

\* scrape_complete_instagram_profile (sync): the pair it returns, the calls it
\* makes and what the two primary scrapers gave
scrape_complete_instagram_profile(username, posts_response, profile_response, alt_response) ==
  LET posts_data == scrape_instagram_posts_primary(username, posts_response)
      profile_data == scrape_profile_info_only(username, profile_response)
      alt == scrape_profile_and_posts_alternative(username, alt_response)
  IN IF posts_data = <<>>
     THEN [ profile |-> IF profile_data = NoRecord THEN alt[1] ELSE profile_data,
            posts |-> IF alt[2] # <<>> THEN alt[2] ELSE posts_data,
            primary_profile |-> profile_data, primary_posts |-> posts_data,
            calls |-> <<"scrape_posts", "scrape_profile", "scrape_alternative">> ]
     ELSE [ profile |-> profile_data, posts |-> posts_data,
            primary_profile |-> profile_data, primary_posts |-> posts_data,
            calls |-> <<"scrape_posts", "scrape_profile">> ]

\* the parallel scrape without its second attempt at the posts
scrape_complete_instagram_profile_async_no_alternative(username, posts_response, profile_response, alt_response) ==
  LET posts_data == scrape_instagram_posts_primary(username, posts_response)
      profile_data == scrape_profile_info_only(username, profile_response)
  IN [ profile |-> profile_data, posts |-> posts_data,
       primary_profile |-> profile_data, primary_posts |-> posts_data,
       calls |-> <<"scrape_profile", "scrape_posts">> ]

\* scrape_complete_instagram_profile_async -> scrape_profile_and_posts_parallel_async
scrape_complete_instagram_profile_async(username, posts_response, profile_response, alt_response) ==
  LET posts_data == scrape_instagram_posts_primary(username, posts_response)
      profile_data == scrape_profile_info_only(username, profile_response)
      alt == scrape_profile_and_posts_alternative(username, alt_response)
  IN IF posts_data = <<>> /\ profile_data # NoRecord
     THEN [ profile |-> profile_data,
            posts |-> IF alt[2] # <<>> THEN alt[2] ELSE posts_data,
            primary_profile |-> profile_data, primary_posts |-> posts_data,
            calls |-> <<"scrape_profile", "scrape_posts", "scrape_alternative">> ]
     ELSE [ profile |-> profile_data, posts |-> posts_data,
            primary_profile |-> profile_data, primary_posts |-> posts_data,
            calls |-> <<"scrape_profile", "scrape_posts">> ]

\* profile_data.update(scraped_profile)
UpdateProfile(profile_data, scraped_profile) ==
  [ profile_data EXCEPT !.username = scraped_profile.username,
                        !.name = scraped_profile.name,
                        !.full_name = scraped_profile.full_name,
                        !.instagram_url = scraped_profile.instagram_url ]

(***************************************************************************)
(* workflow_logic.py: analysis, metrics and scores.  Rates are kept in     *)
(* ten-thousandths and scores in tenths, divisions rounded down.           *)
(***************************************************************************)
\* analyze_instagram_posts: one post
AnalyzePost(post, username) ==
  [ username |-> username, postId |-> post.id,
    likesCount |-> post.likesCount, commentsCount |-> post.commentsCount,
    videoViewCount |-> post.videoViewCount,
    isAd |-> (\E i \in 1..Len(post.hashtags) : Lower(post.hashtags[i]) = "ad")
             \/ post.paidPartnership,
    hashtags |-> post.hashtags ]

analyze_instagram_posts(posts_data, username) ==
  [i \in 1..Len(posts_data) |-> AnalyzePost(posts_data[i], username)]

RECURSIVE SumSeq(_)
SumSeq(seq) == IF seq = <<>> THEN 0 ELSE seq[1] + SumSeq(Tail(seq))

\* the integer square root
RECURSIVE IsqrtIn(_, _, _)
IsqrtIn(n, lo, hi) ==
  IF lo >= hi THEN lo
  ELSE LET mid == (lo + hi + 1) \div 2
       IN IF mid * mid <= n THEN IsqrtIn(n, mid, hi) ELSE IsqrtIn(n, lo, mid - 1)

Isqrt(n) == IsqrtIn(n, 0, Min(n, 46340))

EngagementRate(p) ==
  ((p.likesCount + p.commentsCount) * 10000)
     \div (IF p.videoViewCount > 0 THEN p.videoViewCount ELSE Max(p.likesCount, 1))

\* statistics.stdev
Stdev(xs) ==
  LET mean == SumSeq(xs) \div Len(xs)
  IN Isqrt(SumSeq([i \in 1..Len(xs) |-> (xs[i] - mean) * (xs[i] - mean)]) \div (Len(xs) - 1))

aggregate_post_metrics(posts) ==
  IF posts = <<>> THEN NoRecord
  ELSE LET er == [i \in 1..Len(posts) |-> EngagementRate(posts[i])]
           ers == SelectSeq(er, LAMBDA x : x > 0)
           org == {i \in 1..Len(posts) : ~posts[i].isAd /\ er[i] > 0}
           stdev_er == IF Len(ers) > 1 THEN Stdev(ers) ELSE 0
           total_likes == SumSeq([i \in 1..Len(posts) |-> posts[i].likesCount])
           total_comments == SumSeq([i \in 1..Len(posts) |-> posts[i].commentsCount])
           total_views == SumSeq([i \in 1..Len(posts) |-> posts[i].videoViewCount])
       IN [ username |-> posts[1].username,
            postsAnalyzed |-> Len(posts),
            avgEngagement_all |-> IF ers # <<>> THEN SumSeq(ers) \div Len(ers) ELSE 0,
            avgLikes |-> total_likes \div Len(posts),
            avgComments |-> total_comments \div Len(posts),
            avgViews |-> total_views \div Len(posts),
            stdevEngagement |-> stdev_er,
            consistencyScore |-> Max(0, Min(8500, 10000 - (stdev_er \div 10))),
            organicPct |-> (Cardinality(org) * 100) \div Len(posts),
            commentShare |-> IF total_likes + total_comments > 0
                             THEN (total_comments * 10000) \div (total_likes + total_comments)
                             ELSE 0,
            commentsPer10kViews |-> IF total_views > 0
                                    THEN (total_comments * 10000) \div total_views ELSE 0,
            hashtagCounts |-> UNION {Range(posts[i].hashtags) : i \in 1..Len(posts)} ]

\* round(x, 1) of a value in hundredths, in tenths
Round1(x) == (x + 5) \div 10

\* the fallback calculator without the hashtag rule: AudienceMatch always 70
calculate_scores_manually_flat_audience(metrics, username) ==
  LET consistency_score == IF metrics = NoRecord THEN 7500 ELSE metrics.consistencyScore
      comment_share == IF metrics = NoRecord THEN 0 ELSE metrics.commentShare
      comments_per_10k_views == IF metrics = NoRecord THEN 0 ELSE metrics.commentsPer10kViews
  IN [ username |-> username,
       postsAnalyzed |-> IF metrics = NoRecord THEN 0 ELSE metrics.postsAnalyzed,
       Authenticity |-> Round1(Max(0, Min(10000, consistency_score))),
       BrandSafety |-> 850,
       AudienceMatch |-> 700,
       ContentQuality |-> Round1(Max(0, Min(10000,
          6000 + ((comment_share * 30) \div 100)
               + Min(2000, comments_per_10k_views * 20)))) ]

\* calculate_scores_manually(metrics, username); metrics may be {}.
\* consistencyScore is in hundredths, commentShare in ten-thousandths,
\* commentsPer10kViews in units; the scores are rounded to tenths
calculate_scores_manually(metrics, username) ==
  LET consistency_score == IF metrics = NoRecord THEN 7500 ELSE metrics.consistencyScore
      comment_share == IF metrics = NoRecord THEN 0 ELSE metrics.commentShare
      comments_per_10k_views == IF metrics = NoRecord THEN 0 ELSE metrics.commentsPer10kViews
      hashtag_counts == IF metrics = NoRecord THEN {} ELSE metrics.hashtagCounts
  IN [ username |-> username,
       postsAnalyzed |-> IF metrics = NoRecord THEN 0 ELSE metrics.postsAnalyzed,
       Authenticity |-> Round1(Max(0, Min(10000, consistency_score))),
       BrandSafety |-> 850,
       AudienceMatch |-> IF hashtag_counts # {} THEN 750 ELSE 700,
       ContentQuality |-> Round1(Max(0, Min(10000,
          6000 + ((comment_share * 30) \div 100)
               + Min(2000, comments_per_10k_views * 20)))) ]

\* the scores both orchestrators give a profile that has no posts
ProfileOnlyScores(username) ==
  [ username |-> username, postsAnalyzed |-> 0, Authenticity |-> 700,
    BrandSafety |-> 850, AudienceMatch |-> 600, ContentQuality |-> 650 ]

\* re.search(r'(\d+(?:\.\d+)?)', line), then float(), in tenths
RECURSIVE ScoreNumber(_)
ScoreNumber(s) ==
  IF s = "" THEN NoNumber
  ELSE LET whole == LeadingDigits(s)
           rest == SubSeq(s, Len(whole) + 1, Len(s))
           frac == IF rest # "" /\ CharAt(rest, 1) = "." THEN LeadingDigits(Tail1(rest)) ELSE ""
       IN IF whole = "" THEN ScoreNumber(Tail1(s))
          ELSE ParseInt(whole) * 10 + (IF frac = "" THEN 0 ELSE DigitVal(CharAt(frac, 1)))

\* one line of the scoring reply taken as the LLM wrote it, without the clamp
ScoringLine_unclamped(scores, line) ==
  LET score_value == ScoreNumber(line)
  IN IF score_value = NoNumber THEN scores
     ELSE IF Contains("authenticity", Lower(line))
       THEN [scores EXCEPT !.Authenticity = score_value]
     ELSE IF Contains("brand safety", Lower(line))
       THEN [scores EXCEPT !.BrandSafety = score_value]
     ELSE IF Contains("audience match", Lower(line))
       THEN [scores EXCEPT !.AudienceMatch = score_value]
     ELSE IF Contains("content quality", Lower(line))
       THEN [scores EXCEPT !.ContentQuality = score_value]
     ELSE scores

\* one line of the scoring reply, applied to the scores so far
ScoringLine(scores, line) ==
  LET score_value == ScoreNumber(line)
      clamped == Min(1000, Max(0, score_value))
  IN IF score_value = NoNumber THEN scores
     ELSE IF Contains("authenticity", Lower(line)) THEN [scores EXCEPT !.Authenticity = clamped]
     ELSE IF Contains("brand safety", Lower(line)) THEN [scores EXCEPT !.BrandSafety = clamped]
     ELSE IF Contains("audience match", Lower(line)) THEN [scores EXCEPT !.AudienceMatch = clamped]
     ELSE IF Contains("content quality", Lower(line))
       THEN [scores EXCEPT !.ContentQuality = clamped]
     ELSE scores

\* len(response_text.strip()), the reply given as its lines
RECURSIVE TextLen(_)
TextLen(lines) ==
  IF lines = <<>> THEN 0
  ELSE Len(lines[1]) + (IF Len(lines) > 1 THEN 1 ELSE 0) + TextLen(Tail(lines))

\* parse_scoring_response; response_text is the reply split at '\n'
parse_scoring_response(response_text, username, metrics) ==
  LET defaults == [ username |-> username,
                    postsAnalyzed |-> IF metrics = NoRecord THEN 0 ELSE metrics.postsAnalyzed,
                    Authenticity |-> 750, BrandSafety |-> 850,
                    AudienceMatch |-> 700, ContentQuality |-> 750 ]
  IN IF TextLen(ReplyLines(response_text)) < 10 THEN defaults
     ELSE FoldLines(ScoringLine, defaults, ReplyLines(response_text))

\* a validation that lets every score dict through
AllScoresZero_never(scores) == FALSE

\* all(scores.get(key, 0) == 0 for key in the four score keys)
AllScoresZero(scores) ==
  /\ scores.Authenticity = 0 /\ scores.BrandSafety = 0
  /\ scores.AudienceMatch = 0 /\ scores.ContentQuality = 0

(***************************************************************************)
(* State.                                                                  *)
(***************************************************************************)
VARIABLES
  now,        \* datetime.now(), in seconds
  ticks,      \* clock advances so far
  file,       \* instagram_analysis.json: [valid, profiles]; profiles is the
              \* "profiles" dict in insertion order, a sequence of [key, rec]
  inserted,   \* history: key -> the record of the latest successful insert
  is_loaded,  \* fast_semantic_matcher.is_loaded
  faiss_index,    \* fast_semantic_matcher.faiss_index: None, or the rows of
                  \* the index, each row named by the username it was made for
  username_list,  \* fast_semantic_matcher.username_list
  embeddings_loaded,      \* UnifiedDataManager.embeddings_loaded
  auto_scraping_enabled,  \* UnifiedDataManager.auto_scraping_enabled
  runs,       \* requests started so far
  pc,         \* position of the request being served
  rq,         \* the request's local variables
  calls,      \* history: the external and store calls of the request, in order
  pre,        \* history: the stored profiles when the request started
  result      \* what the request returned

vars == <<now, ticks, file, inserted, is_loaded, faiss_index, username_list,
                 embeddings_loaded,
          auto_scraping_enabled, runs, pc, rq, calls, pre, result>>

(***************************************************************************)
(* database.py                                                             *)
(***************************************************************************)
EmptyDb == <<>>

\* get_database(): a missing or unparsable file reads as an empty store
get_database == IF file.valid THEN file.profiles ELSE EmptyDb

DictHas(d, k) == \E i \in 1..Len(d) : d[i].key = k

DictGet(d, k) ==
  IF DictHas(d, k) THEN d[CHOOSE i \in 1..Len(d) : d[i].key = k].rec ELSE NoRecord

\* d[k] = v on a Python dict: an existing key keeps its position
DictSet(d, k, v) ==
  IF DictHas(d, k)
  THEN [i \in 1..Len(d) |-> IF d[i].key = k THEN [key |-> k, rec |-> v] ELSE d[i]]
  ELSE Append(d, [key |-> k, rec |-> v])

\* the outcomes of save_database(data): written; open() failed and the file is
\* as it was; the write failed after open(..., 'w') truncated the file
SaveOutcomes == {"ok", "open_failed", "write_failed"}

save_database_file(data, outcome) ==
  CASE outcome = "ok" -> [valid |-> TRUE, profiles |-> data]
    [] outcome = "open_failed" -> file
    [] OTHER -> [valid |-> FALSE, profiles |-> EmptyDb]

save_database_returns(outcome) == outcome = "ok"

\* get_profile_from_cache(username)
get_profile_from_cache(username) == DictGet(get_database, Lower(username))

\* a boundary that counts exactly seven days as fresh
IsFresh_inclusive(last_scraped, t) == t - last_scraped <= StaleAge

\* datetime.now() - last_scraped < timedelta(days=7)
IsFresh(last_scraped, t) == t - last_scraped < StaleAge

\* check_profile_exists(username): <<exists, profile_data>>
check_profile_exists(username) ==
  LET profile_data == DictGet(get_database, Lower(username))
  IN IF profile_data = NoRecord THEN <<FALSE, NoRecord>>
     ELSE IF profile_data.metadata.last_scraped = InvalidTime THEN <<FALSE, profile_data>>
     ELSE IF IsFresh(profile_data.metadata.last_scraped, now) THEN <<TRUE, profile_data>>
     ELSE <<FALSE, profile_data>>

\* a key that keeps the letter case of the username
InsertKey_case_kept(profile_info) == profile_info.username

\* username = profile_info.get("username", "").lower()
InsertKey(profile_info) == Lower(profile_info.username)

\* the record insert_complete_profile builds from its arguments
BuildProfileRecord(profile_info, posts_data, metrics_data, scores_data, t) ==
  [ basic_info |-> [ username |-> profile_info.username,
                     name |-> profile_info.name,
                     full_name |-> profile_info.full_name,
                     instagram_url |-> profile_info.instagram_url ],
    posts |-> [ total_posts |-> Len(posts_data),
                organic_posts |-> SelectSeq(posts_data, LAMBDA p : ~p.isAd),
                sponsored_posts |-> SelectSeq(posts_data, LAMBDA p : p.isAd),
                all_posts |-> posts_data ],
    analysis |-> [ metrics |-> metrics_data, scores |-> scores_data ],
    metadata |-> [ last_scraped |-> t, original_query |-> profile_info.input ] ]

\* insert_complete_profile: the file it leaves
insert_complete_profile_file(profile_info, posts_data, metrics_data, scores_data, outcome) ==
  IF profile_info.username = None \/ InsertKey(profile_info) = "" THEN file
  ELSE save_database_file(
         DictSet(get_database, InsertKey(profile_info),
                 BuildProfileRecord(profile_info, posts_data, metrics_data, scores_data, now)),
         outcome)

\* insert_complete_profile: its return value
insert_complete_profile_returns(profile_info, outcome) ==
  /\ profile_info.username # None
  /\ InsertKey(profile_info) # ""
  /\ save_database_returns(outcome)

\* _search_main_database(search_term): <<found, data, username>>
_search_main_database(search_term) ==
  LET direct == get_profile_from_cache(Lower(search_term))
      variations == _generate_username_variations(search_term)
      v == FirstIndex(variations, LAMBDA u : get_profile_from_cache(u) # NoRecord)
      profiles == get_database
      m == FirstIndex(profiles, LAMBDA e : MainNameMatch(Lower(search_term), e.rec.basic_info))
  IN IF direct # NoRecord THEN <<TRUE, direct, Lower(search_term)>>
     ELSE IF v > 0 THEN <<TRUE, get_profile_from_cache(variations[v]), variations[v]>>
     ELSE IF m > 0 THEN <<TRUE, profiles[m].rec, profiles[m].key>>
     ELSE <<FALSE, NoRecord, "">>

\* _search_embeddings_database(search_term): <<found, data, username>>
_search_embeddings_database(search_term) ==
  LET m == FirstIndex(InfluencerData, LAMBDA e : EmbeddingsMatch(search_term, e))
  IN IF ~embeddings_loaded \/ ~is_loaded THEN <<FALSE, NoRecord, "">>
     ELSE IF m > 0
       THEN << TRUE,
               _convert_embeddings_to_main_format(InfluencerData[m].data,
                                                  InfluencerData[m].username),
               InfluencerData[m].username >>
     ELSE <<FALSE, NoRecord, "">>

(***************************************************************************)
(* fast_semantic_matcher.py: the vector index and its key list.  An index  *)
(* is [rows |-> ...], its rows named by the usernames they were made for.  *)
(***************************************************************************)
\* a file that is absent or unreadable
NoFile == [missing |-> TRUE]

\* the no-match position of an index search
NoMatch == -1

\* the username list load_faiss_index makes of the mapping file's content:
\* raised when the dict has no key, or lacks a key of 0..max
MappingList(id_to_username) ==
  IF id_to_username.kind = "list" THEN [raised |-> FALSE, list |-> id_to_username.items]
  ELSE LET items == id_to_username.items
           keys == {items[i].k : i \in 1..Len(items)}
           max_i == CHOOSE k \in keys : \A o \in keys : o <= k
           at(k) == items[CHOOSE j \in 1..Len(items) : items[j].k = k].u
       IN IF keys = {} THEN [raised |-> TRUE, list |-> <<>>]
          ELSE IF \E k \in 0..max_i : k \notin keys THEN [raised |-> TRUE, list |-> <<>>]
          ELSE [raised |-> FALSE, list |-> [k \in 1..(max_i + 1) |-> at(k - 1)]]

\* whether reading the mapping file raises
MappingRaises(mapping_file) ==
  IF mapping_file = NoFile THEN TRUE ELSE MappingList(mapping_file).raised

\* load_faiss_index(index_path, mapping_path): the matcher's two fields after
\* the call, and whether it raised
load_faiss_index(index_file, mapping_file) ==
  IF index_file = NoFile
  THEN [faiss_index |-> faiss_index, username_list |-> username_list, raised |-> TRUE]
  ELSE IF MappingRaises(mapping_file)
  THEN [faiss_index |-> [rows |-> index_file.rows], username_list |-> username_list,
        raised |-> TRUE]
  ELSE [faiss_index |-> [rows |-> index_file.rows],
        username_list |-> MappingList(mapping_file).list, raised |-> FALSE]

\* load_precomputed_embeddings(): is_loaded and the two index fields after it;
\* what load_faiss_index raises is caught
load_precomputed_embeddings(readable, index_file, mapping_file) ==
  IF ~readable
  THEN [is_loaded |-> FALSE, faiss_index |-> faiss_index, username_list |-> username_list]
  ELSE [is_loaded |-> TRUE,
        faiss_index |-> load_faiss_index(index_file, mapping_file).faiss_index,
        username_list |-> load_faiss_index(index_file, mapping_file).username_list]

\* build_faiss_index(embeddings, usernames): the comparison of the shape tuple
\* with 0 raises before any field is assigned
build_faiss_index(embeddings, usernames) ==
  [faiss_index |-> faiss_index, username_list |-> username_list, raised |-> TRUE]

\* list[idx] as Python reads it; NoRecord when it raises IndexError
ListItem(list, idx) ==
  IF 0 <= idx /\ idx < Len(list) THEN [item |-> list[idx + 1]]
  ELSE IF idx < 0 /\ -idx <= Len(list) THEN [item |-> list[Len(list) + idx + 1]]
  ELSE NoRecord

\* a loop that skips the no-match position only
SkipPosition_sentinel_only(idx, n) == idx = NoMatch

\* the two tests of the loop in search_by_text
SkipPosition(idx, n) == idx = NoMatch \/ idx >= n

\* the loop over zip(scores_flat, idxs_flat) after n pairs: the results so
\* far, and whether a lookup has raised
RECURSIVE SearchLoop(_, _, _)
SearchLoop(scores_flat, idxs_flat, n) ==
  IF n = 0 THEN [raised |-> FALSE, results |-> <<>>]
  ELSE LET before == SearchLoop(scores_flat, idxs_flat, n - 1)
           idx == idxs_flat[n]
           found == ListItem(username_list, idx)
       IN IF before.raised THEN before
          ELSE IF SkipPosition(idx, Len(username_list)) THEN before
          ELSE IF found = NoRecord THEN [raised |-> TRUE, results |-> <<>>]
          ELSE [before EXCEPT !.results =
                  Append(@, [username |-> found.item, score |-> scores_flat[n]])]

\* search_by_text(text, top_k), given what faiss_index.search returned
search_by_text(scores_flat, idxs_flat) ==
  IF faiss_index = NoRecord \/ username_list = <<>>
  THEN [raised |-> FALSE, results |-> <<>>]
  ELSE SearchLoop(scores_flat, idxs_flat, Len(idxs_flat))

\* the confidence of a vector match without the clamp
match_confidence_unclamped(score) == score

\* max(0.0, min(1.0, score)) * 100.0 for a score in hundredths: a percentage
match_confidence(score) == Max(0, Min(100, score))

\* the matches find_semantic_matches makes of the hits of search_by_text: one
\* for each hit whose username has a summary, ranked by its place among the hits
VectorMatches(hits, influencer_data) ==
  LET known(username) == \E i \in 1..Len(influencer_data) :
                           influencer_data[i].username = username
      summary(username) == influencer_data[CHOOSE i \in 1..Len(influencer_data) :
                                             influencer_data[i].username = username]
      ranks == SelectSeq([r \in 1..Len(hits) |-> r], LAMBDA r : known(hits[r].username))
  IN [k \in 1..Len(ranks) |->
        [influencer |-> summary(hits[ranks[k]].username),
         semantic_match_score |-> hits[ranks[k]].score,
         match_confidence |-> match_confidence(hits[ranks[k]].score),
         rank |-> ranks[k]]]

\* the most matches the keyword scorer returns
FallbackLimit == 8

\* the score the keyword scorer gives one summary: 30 for each keyword in the
\* category, 15 for each keyword in some hashtag, 10 for each keyword in the bio
KeywordScore(product_keywords, influencer) ==
  LET category == Lower(influencer.category)
      hashtags == [h \in 1..Len(influencer.top_hashtags) |-> Lower(influencer.top_hashtags[h])]
      bio == Lower(influencer.bio)
      kws == 1..Len(product_keywords)
  IN 30 * Cardinality({k \in kws : Contains(product_keywords[k], category)})
     + 15 * Cardinality({k \in kws : \E h \in 1..Len(hashtags) :
                                       Contains(product_keywords[k], hashtags[h])})
     + 10 * Cardinality({k \in kws : Contains(product_keywords[k], bio)})

\* matches.sort(key=semantic_match_score, reverse=True): stable, highest first
SortMatches(matches) ==
  LET n == Len(matches)
      place(i) == 1 + Cardinality({j \in 1..n :
                    \/ matches[j].semantic_match_score > matches[i].semantic_match_score
                    \/ /\ matches[j].semantic_match_score = matches[i].semantic_match_score
                       /\ j < i})
  IN [k \in 1..n |-> matches[CHOOSE i \in 1..n : place(i) = k]]

\* the keyword scorer that returns its matches in the order of the summaries
_fallback_keyword_matching_unsorted(product_description, influencers) ==
  LET product_keywords == Words(Lower(product_description))
      scored == [i \in 1..Len(influencers) |->
                   [influencer |-> influencers[i],
                    semantic_match_score |-> KeywordScore(product_keywords, influencers[i]),
                    match_confidence |->
                      Min(KeywordScore(product_keywords, influencers[i]), 100)]]
      matches == SelectSeq(scored, LAMBDA m : m.semantic_match_score > 0)
  IN SubSeq(matches, 1, Min(Len(matches), FallbackLimit))

\* _fallback_keyword_matching(product_description, influencers);
\* semantic_match_score in hundredths
_fallback_keyword_matching(product_description, influencers) ==
  LET product_keywords == Words(Lower(product_description))
      scored == [i \in 1..Len(influencers) |->
                   [influencer |-> influencers[i],
                    semantic_match_score |-> KeywordScore(product_keywords, influencers[i]),
                    match_confidence |->
                      Min(KeywordScore(product_keywords, influencers[i]), 100)]]
      matches == SortMatches(SelectSeq(scored, LAMBDA m : m.semantic_match_score > 0))
  IN SubSeq(matches, 1, Min(Len(matches), FallbackLimit))

\* find_semantic_matches(product_description, top_k) once the summaries are
\* loaded, given the summaries held and what faiss_index.search returned
find_semantic_matches(product_description, influencer_data, scores_flat, idxs_flat) ==
  IF faiss_index # NoRecord /\ username_list # <<>>
  THEN LET hits == search_by_text(scores_flat, idxs_flat)
       IN IF hits.raised THEN [raised |-> TRUE, matches |-> <<>>]
          ELSE [raised |-> FALSE, matches |-> VectorMatches(hits.results, influencer_data)]
  ELSE [raised |-> FALSE,
        matches |-> _fallback_keyword_matching(product_description, influencer_data)]

(***************************************************************************)
(* What the external collaborators may answer.                             *)
(***************************************************************************)
Queries == {"jo lee", "best tv"}

\* what run_workflow is asked
ChatMessages == {"jo lee"}

SpellingReplies ==
  { NoReply,
    <<"Is Influencer: No", "Confidence: 0.9">>,
    <<"Is Influencer: Yes", "Corrected Name: Jo Lee", "Confidence: 0.9">> }

NormalizationReplies ==
  { NoReply, <<"Search Name: Jo Lee", "", "Handles:", "- jl">> }

Organic(link) == [link |-> link, title |-> "", snippet |-> ""]

\* search_google / search_google_async: None, or the response JSON
SearchResponses ==
  { [ok |-> FALSE, organic |-> <<>>],
    [ok |-> TRUE, organic |-> <<>>],
    [ok |-> TRUE, organic |-> << Organic("https://www.instagram.com/JL/?hl=en"),
                                Organic("https://instagram.com/jl") >>],
    [ok |-> TRUE, organic |-> << Organic("https://instagram.com/p/x1") >>] }

SelectionReplies ==
  { NoReply,
    <<"Name: Jo Lee", "Instagram URL: https://instagram.com/jl", "Confidence: 0.9">>,
    <<"Instagram URL: instagram.com/JL">>,
    <<"Username: jl">>,
    <<"Instagram URL: https://instagram.com/">> }

Post1 ==
  [ id |-> "p1", likesCount |-> 90, commentsCount |-> 10, videoViewCount |-> 1000,
    hashtags |-> <<"Ad">>, paidPartnership |-> FALSE ]
Post2 ==
  [ id |-> "p2", likesCount |-> 50, commentsCount |-> 0, videoViewCount |-> 0,
    hashtags |-> <<>>, paidPartnership |-> FALSE ]

PostsResponses == { <<>>, <<Post1, Post2>> }

ProfileResponses ==
  { <<>>,
    << [username |-> None, fullName |-> "Jo Lee"] >>,
    << [username |-> "jl2", fullName |-> ""] >> }

AlternativeResponses ==
  { <<>>, << [username |-> None, fullName |-> "", latestPosts |-> <<Post1, Post2>>] >> }

ScoringReplies ==
  { NoReply,
    <<"Authenticity: 0", "Brand Safety: 0", "Audience Match: 0", "Content Quality: 0">>,
    <<"Authenticity: 80", "Brand Safety: 90", "Audience Match: 60", "Content Quality: 170">> }

\* influencer_index.faiss: absent, or an index of one or two rows
IndexFiles == { NoFile, [rows |-> <<"JoLee">>], [rows |-> <<"JoLee", "jl">>] }

\* username_mapping.json as save_faiss_index writes it for an index
SavedMapping(index_file) ==
  [kind |-> "dict",
   items |-> [i \in 1..Len(index_file.rows) |-> [k |-> i - 1, u |-> index_file.rows[i]]]]

\* username_mapping.json next to an index file: absent or unreadable, an empty
\* dict, the dict saved with the index, that dict with its last position
\* moved one up
MappingFiles(index_file) ==
  IF index_file = NoFile THEN {NoFile}
  ELSE { NoFile,
         [kind |-> "dict", items |-> <<>>],
         SavedMapping(index_file),
         [kind |-> "dict",
          items |-> [i \in 1..Len(index_file.rows) |->
                       [k |-> IF i = Len(index_file.rows) THEN i ELSE i - 1,
                        u |-> index_file.rows[i]]]] }

\* the index files a request finds at its first load: none, or the pair
\* save_faiss_index wrote
SavedIndexFiles ==
  { <<NoFile, NoFile>>,
    << [rows |-> <<"JoLee">>], SavedMapping([rows |-> <<"JoLee">>]) >> }

\* the product descriptions a match is asked for
ProductDescriptions == {"", "fit", "Fit fit", "tea fit"}

\* the summaries the matcher holds: none, the two of the index files, or
\* one more than the keyword scorer returns
MatcherSummaries ==
  { <<>>,
    << [username |-> "JoLee", category |-> "Fitness", top_hashtags |-> <<"#FitLife">>,
        bio |-> "Fit for life"],
       [username |-> "jl", category |-> "", top_hashtags |-> <<>>, bio |-> "Tea lover"] >>,
    [i \in 1..(FallbackLimit + 1) |->
       [username |-> "u" \o ToString(i),
        category |-> IF i % 3 = 0 THEN "Fitness" ELSE "Food",
        top_hashtags |-> IF i % 2 = 0 THEN <<"#food", "#GetFit">> ELSE <<>>,
        bio |-> "fit"]] }

\* the largest top_k of a search
MaxTopK == 3

\* the score faiss gives a position it has no row for
NoMatchScore == -1000

\* idxs[0] of faiss_index.search(q, top_k): the best rows first, each once,
\* then the no-match position
SearchPositions(top_k) ==
  LET ntotal == IF faiss_index = NoRecord THEN 0 ELSE Len(faiss_index.rows)
      hits == IF top_k < ntotal THEN top_k ELSE ntotal
  IN { idxs \in [1..top_k -> (0..(ntotal - 1)) \cup {NoMatch}] :
         /\ \A r \in 1..hits : idxs[r] # NoMatch
         /\ \A r \in (hits + 1)..top_k : idxs[r] = NoMatch
         /\ \A r, q \in 1..hits : idxs[r] = idxs[q] => r = q }

\* scores[0] of the same search, in hundredths, falling with the rank
SearchScores(idxs_flat) ==
  [r \in 1..Len(idxs_flat) |-> IF idxs_flat[r] = NoMatch THEN NoMatchScore ELSE 100 - 10 * r]

\* the similarity scores of the hits, in hundredths: rounding can take an inner
\* product of unit vectors past 1, and opposed vectors give a negative one
HitScores == {101, 50, -20}

\* scores[0] of a search for a match: falling with the rank
MatchScores(idxs_flat) ==
  { [r \in 1..Len(idxs_flat) |-> IF idxs_flat[r] = NoMatch THEN NoMatchScore ELSE s[r]] :
      s \in { t \in [1..Len(idxs_flat) -> HitScores] :
                \A r \in 1..(Len(idxs_flat) - 1) : t[r] >= t[r + 1] } }

\* the clock advances between requests by one of these
TickSteps == {StaleAge - 1, StaleAge, StaleAge + 1}

(***************************************************************************)
(* The request being served.                                               *)
(***************************************************************************)
NoProfileData ==
  [ input |-> "", name |-> "", full_name |-> "", username |-> None,
    instagram_url |-> "", confidence |-> 0 ]

NewRequest(api, mode, query, auto_scrape) ==
  [ api |-> api, mode |-> mode, query |-> query, auto_scrape |-> auto_scrape,
    spelling |-> NoRecord, corrected_name |-> "", normalized |-> NoRecord,
    search_terms |-> <<>>, candidates |-> <<>>, selection_text |-> NoReply,
    selected_profile |-> NoRecord, profile_data |-> NoProfileData, username |-> None,
    cached |-> NoRecord, primary_profile |-> NoRecord, primary_posts |-> <<>>,
    scraped_profile |-> NoRecord, posts_raw |-> <<>>,
    analyzed_posts |-> <<>>, metrics |-> NoRecord, scoring_text |-> NoReply,
    scores |-> NoRecord ]

NoResult == [found |-> FALSE, data |-> NoRecord, source |-> None]

\* what the caller holds when find_influencer_anywhere returns None, not a triple
NoTriple == [found |-> FALSE, data |-> NoRecord, source |-> "<no triple>"]

\* the request returns
Return(res) ==
  /\ result' = res
  /\ pc' = "done"

\* the caller has the result; the next request starts afresh
Finish ==
  /\ pc = "done"
  /\ pc' = "idle"
  /\ rq' = NewRequest("none", "none", "", FALSE)
  /\ calls' = <<>> /\ pre' = EmptyDb /\ result' = NoResult
  /\ UNCHANGED <<now, ticks, file, inserted, is_loaded, faiss_index, username_list,
                 embeddings_loaded,
                 auto_scraping_enabled, runs>>

Call(op, arg) == [op |-> op, arg |-> arg]

Init ==
  /\ now = 0 /\ ticks = 0
  /\ file = [valid |-> TRUE, profiles |-> EmptyDb]
  /\ inserted = <<>>
  /\ is_loaded = FALSE /\ embeddings_loaded = FALSE
  /\ faiss_index = NoRecord /\ username_list = <<>>
  /\ auto_scraping_enabled = TRUE
  /\ runs = 0 /\ pc = "idle"
  /\ rq = NewRequest("none", "none", "", FALSE)
  /\ calls = <<>> /\ pre = EmptyDb /\ result = NoResult

\* time passes between requests
Tick ==
  /\ pc = "idle" /\ ticks < MaxTicks
  /\ runs > 0
  /\ \E d \in TickSteps : now' = now + d
  /\ ticks' = ticks + 1
  /\ UNCHANGED <<file, inserted, is_loaded, faiss_index, username_list,
                 embeddings_loaded, auto_scraping_enabled,
                 runs, pc, rq, calls, pre, result>>

\* UnifiedDataManager.toggle_auto_scraping(enabled)
toggle_auto_scraping ==
  /\ pc = "idle"
  /\ \E enabled \in BOOLEAN : auto_scraping_enabled' = enabled
  /\ UNCHANGED <<now, ticks, file, inserted, is_loaded, faiss_index, username_list,
                 embeddings_loaded,
                 runs, pc, rq, calls, pre, result>>

(***************************************************************************)
(* unified_data_manager.py: find_influencer_anywhere                       *)
(***************************************************************************)
\* find_influencer_anywhere_async / _find_influencer_anywhere_sync begin:
\* ensure_all_data_loaded, with the outcome of load_precomputed_embeddings
U_Start ==
  /\ pc = "idle" /\ runs < MaxRuns
  /\ \E query \in Queries, mode \in {"async", "sync"}, auto_scrape \in BOOLEAN :
       rq' = NewRequest("udm", mode, query, auto_scrape)
  /\ IF embeddings_loaded
     THEN UNCHANGED <<is_loaded, faiss_index, username_list, embeddings_loaded>>
     ELSE \E readable \in BOOLEAN, files \in SavedIndexFiles :
            LET loaded == load_precomputed_embeddings(readable, files[1], files[2])
            IN /\ is_loaded' = loaded.is_loaded
               /\ faiss_index' = loaded.faiss_index
               /\ username_list' = loaded.username_list
               /\ embeddings_loaded' = loaded.is_loaded
  /\ runs' = runs + 1
  /\ calls' = <<>> /\ pre' = get_database /\ result' = NoResult
  /\ pc' = "resolve"
  /\ UNCHANGED <<now, ticks, file, inserted, auto_scraping_enabled>>

\* find_influencer_anywhere when run_async_in_sync cannot run the coroutine:
\* every strategy failed, the exception is caught there and None is returned,
\* so the sync fallback of find_influencer_anywhere is not reached
U_RunAsyncFails ==
  /\ pc = "idle" /\ runs < MaxRuns
  /\ \E query \in Queries : rq' = NewRequest("udm", "async", query, TRUE)
  /\ runs' = runs + 1
  /\ calls' = <<>> /\ pre' = get_database
  /\ Return(NoTriple)
  /\ UNCHANGED <<now, ticks, file, inserted, is_loaded, faiss_index, username_list,
                 embeddings_loaded, auto_scraping_enabled>>

\* a resolver result that lets every query through
U_IsRejected_never(spelling_result) == FALSE

\* step 2: the not_influencer test
U_IsRejected(spelling_result) == ~spelling_result.is_influencer

\* step 2: spelling correction
U_Resolve ==
  /\ pc = "resolve"
  /\ \E response \in SpellingReplies :
       LET spelling_result == spell_correct_influencer_name(rq.query, response)
       IN /\ rq' = [rq EXCEPT !.spelling = spelling_result,
                              !.corrected_name = spelling_result.corrected_name]
          /\ calls' = Append(calls, Call("llm", "spelling"))
          /\ IF U_IsRejected(spelling_result)
             THEN Return([found |-> FALSE, data |-> NoRecord, source |-> "not_influencer"])
             ELSE pc' = "normalize" /\ UNCHANGED result
  /\ UNCHANGED <<now, ticks, file, inserted, is_loaded, faiss_index, username_list,
                 embeddings_loaded,
                 auto_scraping_enabled, runs, pre>>

\* step 3: normalization and the search terms
U_Normalize ==
  /\ pc = "normalize"
  /\ \E response \in NormalizationReplies :
       LET normalized == enhanced_influencer_normalization(rq.corrected_name, response)
       IN rq' = [rq EXCEPT !.normalized = normalized,
                           !.search_terms = SearchTerms(rq.query, rq.corrected_name, normalized)]
  /\ calls' = Append(calls, Call("llm", "normalization"))
  /\ pc' = "lookup"
  /\ UNCHANGED <<now, ticks, file, inserted, is_loaded, faiss_index, username_list,
                 embeddings_loaded,
                 auto_scraping_enabled, runs, pre, result>>

LookupCalls(term, main_found, emb_consulted, emb_found) ==
  <<Call(IF main_found THEN "main_lookup_hit" ELSE "main_lookup_miss", term)>>
    \o (IF emb_consulted
        THEN <<Call(IF emb_found THEN "embeddings_lookup_hit" ELSE "embeddings_lookup_miss",
                    term)>>
        ELSE <<>>)

\* one iteration of the loop over search_terms, rest being what the later
\* iterations give
LookupStep(term, rest) ==
  LET main == _search_main_database(term)
      emb == _search_embeddings_database(term)
  IN IF main[1]
     THEN [ hit |-> [found |-> TRUE, data |-> main[2], source |-> "main_db:@" \o main[3]],
            calls |-> LookupCalls(term, TRUE, FALSE, FALSE) ]
     ELSE IF emb[1]
     THEN [ hit |-> [found |-> TRUE, data |-> emb[2], source |-> "embeddings:@" \o emb[3]],
            calls |-> LookupCalls(term, FALSE, TRUE, TRUE) ]
     ELSE [ hit |-> rest.hit, calls |-> LookupCalls(term, FALSE, TRUE, FALSE) \o rest.calls ]

\* a loop that gives up after its first term
RECURSIVE LookupLoop_first_term_only(_)
LookupLoop_first_term_only(terms) ==
  IF terms = <<>> THEN [hit |-> NoResult, calls |-> <<>>]
  ELSE LookupStep(terms[1], [hit |-> NoResult, calls |-> <<>>])

\* step 4, the loop over search_terms: the hit it returns (found FALSE when every
\* lookup misses) and the lookups it makes
RECURSIVE LookupLoop(_)
LookupLoop(terms) ==
  IF terms = <<>> THEN [hit |-> NoResult, calls |-> <<>>]
  ELSE LookupStep(terms[1], LookupLoop(Tail(terms)))

\* a test that looks at the caller's flag only
U_AutoScrape_flag_only(auto_scrape, enabled) == auto_scrape

\* step 5: if auto_scrape and self.auto_scraping_enabled
U_AutoScrape(auto_scrape, enabled) == auto_scrape /\ enabled

\* steps 4 and 5: the local lookups, then auto-scraping or not_found
U_Lookup ==
  /\ pc = "lookup"
  /\ LET loop == LookupLoop(rq.search_terms)
     IN /\ calls' = calls \o loop.calls
        /\ IF loop.hit.found THEN Return(loop.hit)
           ELSE IF U_AutoScrape(rq.auto_scrape, auto_scraping_enabled)
             THEN pc' = "search" /\ UNCHANGED result
           ELSE Return([found |-> FALSE, data |-> NoRecord, source |-> "not_found"])
  /\ UNCHANGED <<now, ticks, file, inserted, is_loaded, faiss_index, username_list,
                 embeddings_loaded,
                 auto_scraping_enabled, runs, rq, pre>>

\* a separate outcome for a failed selection, filed under no terminal
ScrapingFailed_selection_failed ==
  [found |-> FALSE, data |-> NoRecord, source |-> "selection_failed"]

ScrapingFailed == [found |-> FALSE, data |-> NoRecord, source |-> "scraping_failed"]

\* _auto_scrape_and_save: steps 1 and 2, Google search and the candidate filter
U_Search ==
  /\ pc = "search"
  /\ \E response \in SearchResponses :
       LET candidates == FilterCandidates(response.organic)
       IN /\ rq' = [rq EXCEPT !.candidates = candidates]
          /\ IF ~response.ok \/ candidates = <<>>
             THEN Return(ScrapingFailed)
             ELSE pc' = "select" /\ UNCHANGED result
  /\ calls' = Append(calls, Call("search", rq.normalized.search_name))
  /\ UNCHANGED <<now, ticks, file, inserted, is_loaded, faiss_index, username_list,
                 embeddings_loaded,
                 auto_scraping_enabled, runs, pre>>

\* _auto_scrape_and_save: steps 3 and 4, the selected profile after the selection
\* reply: NoRecord where the function returns scraping_failed
U_SelectProfile(selection_text, candidates, original_name) ==
  LET selected_profile == parse_profile_selection_response(selection_text)
  IN IF selection_text = NoReply THEN NoRecord
     ELSE IF selected_profile.instagram_url \in {None, ""} THEN NoRecord
     ELSE selected_profile

U_Select ==
  /\ pc = "select"
  /\ \E selection_text \in SelectionReplies :
       LET selected_profile == U_SelectProfile(selection_text, rq.candidates, rq.query)
           profile_data == IF selected_profile = NoRecord THEN NoProfileData
                           ELSE format_profile_data(selected_profile, rq.query)
       IN /\ rq' = [rq EXCEPT !.selection_text = selection_text,
                              !.selected_profile = selected_profile,
                              !.profile_data = profile_data,
                              !.username = profile_data.username]
          /\ IF selected_profile = NoRecord \/ profile_data.username = None
             THEN Return(ScrapingFailed)
             ELSE pc' = "scrape" /\ UNCHANGED result
  /\ calls' = Append(calls, Call("llm", "selection"))
  /\ UNCHANGED <<now, ticks, file, inserted, is_loaded, faiss_index, username_list,
                 embeddings_loaded,
                 auto_scraping_enabled, runs, pre>>

ScrapeCalls(scraped, username) == [i \in 1..Len(scraped.calls) |-> Call(scraped.calls[i], username)]

\* whether _auto_scrape_and_save goes on after the scrape
U_ScrapeUsable(has_profile, has_posts) == has_profile

\* _auto_scrape_and_save: steps 5 to 7, scrape, update, analyze, score
U_Scrape ==
  /\ pc = "scrape"
  /\ \E posts_response \in PostsResponses, profile_response \in ProfileResponses,
        alt_response \in AlternativeResponses :
       LET scraped == IF rq.mode = "async"
                      THEN scrape_complete_instagram_profile_async(
                             rq.username, posts_response, profile_response, alt_response)
                      ELSE scrape_complete_instagram_profile(
                             rq.username, posts_response, profile_response, alt_response)
           has_profile == scraped.profile # NoRecord
           has_posts == scraped.posts # <<>>
           analyzed_posts == analyze_instagram_posts(scraped.posts, rq.username)
           metrics == aggregate_post_metrics(analyzed_posts)
       IN /\ calls' = calls \o ScrapeCalls(scraped, rq.username)
          /\ IF ~U_ScrapeUsable(has_profile, has_posts)
             THEN /\ rq' = [rq EXCEPT !.primary_profile = scraped.primary_profile,
                                      !.primary_posts = scraped.primary_posts,
                                      !.scraped_profile = scraped.profile,
                                      !.posts_raw = scraped.posts]
                  /\ Return(ScrapingFailed)
             ELSE /\ rq' = [rq EXCEPT
                       !.primary_profile = scraped.primary_profile,
                       !.primary_posts = scraped.primary_posts,
                       !.scraped_profile = scraped.profile,
                       !.posts_raw = scraped.posts,
                       !.profile_data = UpdateProfile(@, scraped.profile),
                       !.analyzed_posts = analyzed_posts,
                       !.metrics = metrics,
                       !.scores = IF has_posts
                                  THEN calculate_scores_manually(metrics, rq.username)
                                  ELSE ProfileOnlyScores(rq.username)]
                  /\ pc' = "persist" /\ UNCHANGED result
  /\ UNCHANGED <<now, ticks, file, inserted, is_loaded, faiss_index, username_list,
                 embeddings_loaded,
                 auto_scraping_enabled, runs, pre>>

\* the steps of _auto_scrape_and_save_async an exception can be raised in
AsyncSteps == {"search", "select", "scrape", "persist"}

\* _auto_scrape_and_save_async when one of its steps raises: its own handler
\* catches the exception and returns scraping_failed, so the handler of
\* find_influencer_anywhere_async that would run the sync auto-scrape is not
\* reached
U_AsyncStepRaises ==
  /\ pc \in AsyncSteps
  /\ rq.api = "udm" /\ rq.mode = "async"
  /\ calls' = Append(calls, Call("raise", pc))
  /\ Return(ScrapingFailed)
  /\ UNCHANGED <<now, ticks, file, inserted, is_loaded, faiss_index, username_list,
                 embeddings_loaded, auto_scraping_enabled, runs, rq, pre>>

\* the history of successful inserts
Inserted(profile_info, posts_data, metrics_data, scores_data, outcome) ==
  IF insert_complete_profile_returns(profile_info, outcome)
  THEN DictSet(inserted, Lower(profile_info.username),
               BuildProfileRecord(profile_info, posts_data, metrics_data, scores_data, now))
  ELSE inserted

\* _auto_scrape_and_save: step 8, save and read back
U_Persist ==
  /\ pc = "persist"
  /\ UNCHANGED <<now, ticks, is_loaded, faiss_index, username_list,
                 embeddings_loaded, auto_scraping_enabled,
                 runs, rq, pre>>
  /\ \E outcome \in SaveOutcomes :
       /\ file' = insert_complete_profile_file(rq.profile_data, rq.analyzed_posts,
                                               rq.metrics, rq.scores, outcome)
       /\ inserted' = Inserted(rq.profile_data, rq.analyzed_posts, rq.metrics, rq.scores,
                               outcome)
       /\ calls' = Append(calls, Call("write", outcome))
       /\ LET success == insert_complete_profile_returns(rq.profile_data, outcome)
              final_data == get_profile_from_cache(rq.username)'
          IN IF success /\ final_data # NoRecord
             THEN Return([ found |-> TRUE, data |-> final_data,
                           source |-> "auto_scraped:@" \o rq.username ])
             ELSE Return(ScrapingFailed)

(***************************************************************************)
(* main.py: run_workflow                                                   *)
(***************************************************************************)
\* what run_workflow returns: a stored record, or None
WorkflowResult(data) == [found |-> data # NoRecord, data |-> data, source |-> "workflow"]

\* run_workflow(chat_message) begins; chat_message is not blank
W_Start ==
  /\ pc = "idle" /\ runs < MaxRuns
  /\ \E chat_message \in ChatMessages : rq' = NewRequest("workflow", "sync", chat_message, FALSE)
  /\ runs' = runs + 1
  /\ calls' = <<>> /\ pre' = get_database /\ result' = NoResult
  /\ pc' = "w_normalize"
  /\ UNCHANGED <<now, ticks, file, inserted, is_loaded, faiss_index, username_list,
                 embeddings_loaded,
                 auto_scraping_enabled>>

\* step 1: normalization
W_Normalize ==
  /\ pc = "w_normalize"
  /\ \E normalized_text \in NormalizationReplies :
       rq' = [rq EXCEPT !.normalized =
                IF normalized_text = NoReply
                THEN [search_name |-> rq.query, aliases |-> <<>>, handles |-> <<>>]
                ELSE parse_normalization_response(normalized_text, rq.query)]
  /\ calls' = Append(calls, Call("llm", "normalization"))
  /\ pc' = "w_search"
  /\ UNCHANGED <<now, ticks, file, inserted, is_loaded, faiss_index, username_list,
                 embeddings_loaded,
                 auto_scraping_enabled, runs, pre, result>>

\* steps 2 and 3: Google search and the candidate filter
W_Search ==
  /\ pc = "w_search"
  /\ \E response \in SearchResponses :
       LET candidates == FilterCandidates(response.organic)
       IN /\ rq' = [rq EXCEPT !.candidates = candidates]
          /\ IF ~response.ok \/ candidates = <<>>
             THEN Return(WorkflowResult(NoRecord))
             ELSE pc' = "w_select" /\ UNCHANGED result
  /\ calls' = Append(calls, Call("search", rq.normalized.search_name))
  /\ UNCHANGED <<now, ticks, file, inserted, is_loaded, faiss_index, username_list,
                 embeddings_loaded,
                 auto_scraping_enabled, runs, pre>>

\* step 4: the selected profile after the selection reply, NoRecord where
\* run_workflow returns None
W_SelectProfile(selection_text, candidates, chat_message) ==
  LET selected_profile == IF selection_text = NoReply
                          THEN FirstCandidateProfile(candidates, chat_message)
                          ELSE parse_profile_selection_response(selection_text)
  IN IF selected_profile.instagram_url \in {None, ""} THEN NoRecord ELSE selected_profile

\* steps 4 and 5: profile selection and format_profile_data
W_Select ==
  /\ pc = "w_select"
  /\ \E selection_text \in SelectionReplies :
       LET selected_profile == W_SelectProfile(selection_text, rq.candidates, rq.query)
           profile_data == IF selected_profile = NoRecord THEN NoProfileData
                           ELSE format_profile_data(selected_profile, rq.query)
       IN /\ rq' = [rq EXCEPT !.selection_text = selection_text,
                              !.selected_profile = selected_profile,
                              !.profile_data = profile_data,
                              !.username = profile_data.username]
          /\ IF selected_profile = NoRecord \/ profile_data.username \in {None, ""}
             THEN Return(WorkflowResult(NoRecord))
             ELSE pc' = "w_cache" /\ UNCHANGED result
  /\ calls' = Append(calls, Call("llm", "selection"))
  /\ UNCHANGED <<now, ticks, file, inserted, is_loaded, faiss_index, username_list,
                 embeddings_loaded,
                 auto_scraping_enabled, runs, pre>>

\* a cache check that never serves the stored record
W_CacheHit_never(exists, cached_data) == FALSE

\* step 6: `if exists and cached_data`
W_CacheHit(exists, cached_data) == exists /\ cached_data # NoRecord

\* step 6: the cache check
W_CheckCache ==
  /\ pc = "w_cache"
  /\ LET checked == check_profile_exists(rq.username)
     IN /\ rq' = [rq EXCEPT !.cached = checked[2]]
        /\ IF W_CacheHit(checked[1], checked[2])
           THEN Return(WorkflowResult(checked[2]))
           ELSE pc' = "w_scrape" /\ UNCHANGED result
  /\ calls' = Append(calls, Call("cache_check", rq.username))
  /\ UNCHANGED <<now, ticks, file, inserted, is_loaded, faiss_index, username_list,
                 embeddings_loaded,
                 auto_scraping_enabled, runs, pre>>

\* whether run_workflow goes on after the scrape
W_ScrapeUsable(has_profile, has_posts) == has_profile \/ has_posts

\* step 7 and the analysis: scrape, update, analyze
W_Scrape ==
  /\ pc = "w_scrape"
  /\ \E posts_response \in PostsResponses, profile_response \in ProfileResponses,
        alt_response \in AlternativeResponses :
       LET scraped == scrape_complete_instagram_profile(
                        rq.username, posts_response, profile_response, alt_response)
           has_profile == scraped.profile # NoRecord
           has_posts == scraped.posts # <<>>
           analyzed_posts == analyze_instagram_posts(scraped.posts, rq.username)
       IN /\ calls' = calls \o ScrapeCalls(scraped, rq.username)
          /\ IF ~W_ScrapeUsable(has_profile, has_posts)
             THEN /\ rq' = [rq EXCEPT !.primary_profile = scraped.primary_profile,
                                      !.primary_posts = scraped.primary_posts,
                                      !.scraped_profile = scraped.profile,
                                      !.posts_raw = scraped.posts]
                  /\ Return(WorkflowResult(NoRecord))
             ELSE /\ rq' = [rq EXCEPT
                       !.primary_profile = scraped.primary_profile,
                       !.primary_posts = scraped.primary_posts,
                       !.scraped_profile = scraped.profile,
                       !.posts_raw = scraped.posts,
                       !.profile_data = IF has_profile THEN UpdateProfile(@, scraped.profile)
                                        ELSE @,
                       !.analyzed_posts = analyzed_posts,
                       !.metrics = aggregate_post_metrics(analyzed_posts),
                       !.scores = IF has_posts THEN NoRecord
                                  ELSE ProfileOnlyScores(rq.username)]
                  /\ pc' = IF has_posts THEN "w_score" ELSE "w_persist"
                  /\ UNCHANGED result
  /\ UNCHANGED <<now, ticks, file, inserted, is_loaded, faiss_index, username_list,
                 embeddings_loaded,
                 auto_scraping_enabled, runs, pre>>

\* the scoring LLM call, the manual fallback and the all-zero validation
W_Score ==
  /\ pc = "w_score"
  /\ \E scoring_text \in ScoringReplies :
       LET scores == IF scoring_text # NoReply
                     THEN parse_scoring_response(scoring_text, rq.username, rq.metrics)
                     ELSE calculate_scores_manually(rq.metrics, rq.username)
       IN rq' = [rq EXCEPT !.scoring_text = scoring_text,
                           !.scores =
                   IF AllScoresZero(scores)
                   THEN calculate_scores_manually(rq.metrics, rq.username)
                   ELSE scores]
  /\ calls' = Append(calls, Call("llm", "scoring"))
  /\ pc' = "w_persist"
  /\ UNCHANGED <<now, ticks, file, inserted, is_loaded, faiss_index, username_list,
                 embeddings_loaded,
                 auto_scraping_enabled, runs, pre, result>>

\* step 11: save and read back
W_Persist ==
  /\ pc = "w_persist"
  /\ UNCHANGED <<now, ticks, is_loaded, faiss_index, username_list,
                 embeddings_loaded, auto_scraping_enabled,
                 runs, rq, pre>>
  /\ \E outcome \in SaveOutcomes :
       /\ file' = insert_complete_profile_file(rq.profile_data, rq.analyzed_posts,
                                               rq.metrics, rq.scores, outcome)
       /\ inserted' = Inserted(rq.profile_data, rq.analyzed_posts, rq.metrics, rq.scores,
                               outcome)
       /\ calls' = Append(calls, Call("write", outcome))
       /\ IF insert_complete_profile_returns(rq.profile_data, outcome)
          THEN Return(WorkflowResult(get_profile_from_cache(rq.username)'))
          ELSE Return(WorkflowResult(NoRecord))

Next ==
  \/ Tick
  \/ Finish
  \/ toggle_auto_scraping
  \/ U_Start
  \/ U_RunAsyncFails
  \/ U_Resolve
  \/ U_Normalize
  \/ U_Lookup
  \/ U_Search
  \/ U_Select
  \/ U_Scrape
  \/ U_Persist
  \/ U_AsyncStepRaises

\* requests to UnifiedDataManager.find_influencer_anywhere
Spec == Init /\ [][Next]_vars

NextWorkflow ==
  \/ Tick
  \/ Finish
  \/ W_Start
  \/ W_Normalize
  \/ W_Search
  \/ W_Select
  \/ W_CheckCache
  \/ W_Scrape
  \/ W_Score
  \/ W_Persist

\* requests to main.run_workflow
SpecWorkflow == Init /\ [][NextWorkflow]_vars

(***************************************************************************)
(* Direct calls of the helpers, one call at a time.                        *)
(***************************************************************************)
\* the queries the resolver is called with
ResolverQueries ==
  { "jo lee", "Jo Lee", "best tv", "jo", "j0 lee", "jo lee review", "carryminati",
    "a b c d e", "o'neil jo" }

\* what the spelling LLM may answer
ResolverReplies ==
  SpellingReplies \cup
  { <<"Is Influencer: no">>,
    <<"Confidence: 95", "Is Influencer: No", "Reasoning: a topic">>,
    <<"Is Influencer: maybe", "Corrected Name: null">>,
    <<"Sure! Here is my answer.">>,
    <<"Here you go:", "Confidence: 250", "Is Influencer: yes">>,
    <<"Confidence: -0.5", "Is Influencer: no", "Note: unsure">>,
    <<"Confidence: high", "Corrected Name:">> }

\* words a query may be made of: letters only, of the lengths around each limit
LetterTokens ==
  { "a", "jo", "Lee", "abcdefghijkl", "abcdefghijklm", "abcdefghijklmno",
    "abcdefghijklmnop", "abcdefghijklmnopqrsj", "abcdefghijklmnopqrsja" }

\* words that are not letters only, or hold a topic word
OtherTokens == { "o'neil", "j0", "jo_lee", "Best", "vsauce", "TOPher", "x" }

\* the words the longer queries are made of
ShortTokenList == << "a", "jo", "abcdefghijkl", "abcdefghijklm", "abcdefghijklmno",
                     "abcdefghijklmnop", "vsauce" >>

\* " ".join(words)
RECURSIVE JoinWords(_)
JoinWords(words) ==
  IF words = <<>> THEN ""
  ELSE IF Len(words) = 1 THEN words[1]
  ELSE words[1] \o " " \o JoinWords(Tail(words))

\* the queries _looks_like_name is called with
LooksLikeNameQueries ==
  LetterTokens \cup OtherTokens \cup Range(non_name_indicators)
  \cup { JoinWords(words) : words \in UNION { [1..n -> Range(ShortTokenList)] : n \in 2..4 } }
  \cup { "", "  ", " jo  lee ", "Jo Lee", "jo lee review", "How To jo", "o'neil jo",
         "jo lee jo lee jo", "WHY", "jo j0" }

\* the links of organic search results
ResultLinks ==
  { "https://instagram.com/foo/?hl=en", "https://instagram.com/foo",
    "https://www.instagram.com/FOO/", "instagram.com/foo/?hl=en", "instagram.com/foo",
    "https://instagram.com/p/x1", "https://example.com/foo", "https://instagram.com",
    "https://instagram.com/bar?igshid=1" }

\* the longest list of organic results
MaxResults == 3

\* search_results['organic'] for a list of links; the title tells the position
OrganicResults(links) ==
  [i \in 1..Len(links) |->
     [link |-> links[i], title |-> "result " \o ToString(i), snippet |-> ""]]

\* a call of a helper: its name, its arguments, what it returned
HelperCall(fn, args, value) == [api |-> "helper", fn |-> fn, args |-> args, value |-> value]

\* spell_correct_influencer_name(query) / spell_correct_influencer_name_async(query)
H_Resolve ==
  /\ pc = "idle"
  /\ \E query \in ResolverQueries, response \in ResolverReplies, mode \in {"async", "sync"} :
       rq' = HelperCall("spell_correct_influencer_name",
                        [query |-> query, response |-> response, mode |-> mode],
                        spell_correct_influencer_name(query, response))
  /\ pc' = "done"
  /\ UNCHANGED <<now, ticks, file, inserted, is_loaded, faiss_index, username_list,
                 embeddings_loaded,
                 auto_scraping_enabled, runs, calls, pre, result>>

\* _looks_like_name(query)
H_LooksLikeName ==
  /\ pc = "idle"
  /\ \E query \in LooksLikeNameQueries :
       rq' = HelperCall("_looks_like_name", [query |-> query], _looks_like_name(query))
  /\ pc' = "done"
  /\ UNCHANGED <<now, ticks, file, inserted, is_loaded, faiss_index, username_list,
                 embeddings_loaded,
                 auto_scraping_enabled, runs, calls, pre, result>>

\* build_search_query_and_filter_candidates(norm_data, fallback_query, search_results)
H_FilterCandidates ==
  /\ pc = "idle"
  /\ \E n \in 0..MaxResults : \E links \in [1..n -> ResultLinks] :
       rq' = HelperCall("build_search_query_and_filter_candidates",
                        [organic_results |-> OrganicResults(links)],
                        FilterCandidates(OrganicResults(links)))
  /\ pc' = "done"
  /\ UNCHANGED <<now, ticks, file, inserted, is_loaded, faiss_index, username_list,
                 embeddings_loaded,
                 auto_scraping_enabled, runs, calls, pre, result>>

\* the longest list of analyzed posts handed to the aggregation
MaxPosts == 2

\* analyzed posts, with and without likes, comments, views and the ad mark
AnalyzedPosts ==
  [ username : {"jl"}, postId : {"p"}, likesCount : {0, 50}, commentsCount : {0, 1},
    videoViewCount : {0, 1000}, isAd : BOOLEAN, hashtags : {<<>>} ]

\* aggregate_post_metrics(posts) for a non-empty list
H_AggregatePosts ==
  /\ pc = "idle"
  /\ \E n \in 1..MaxPosts : \E posts \in [1..n -> AnalyzedPosts] :
       rq' = HelperCall("aggregate_post_metrics", [posts |-> posts],
                        aggregate_post_metrics(posts))
  /\ pc' = "done"
  /\ UNCHANGED <<now, ticks, file, inserted, is_loaded, faiss_index, username_list,
                 embeddings_loaded,
                 auto_scraping_enabled, runs, calls, pre, result>>

\* organic results of which some are malformed: no dict, no link, a link that
\* urlparse refuses
MixedItems ==
  { NotADict,
    [link |-> "", title |-> "no link", snippet |-> ""],
    [link |-> "https://[instagram.com/bar", title |-> "bad link", snippet |-> ""],
    [link |-> "https://instagram.com/foo", title |-> "profile", snippet |-> ""],
    [link |-> "https://instagram.com/p/x1", title |-> "post", snippet |-> ""],
    [link |-> "https://example.com/foo", title |-> "elsewhere", snippet |-> ""] }

Malformed(item) == ~IsDict(item) \/ item.link = "" \/ UrlParseRaises(CleanLink(item.link))

\* build_search_query_and_filter_candidates on a list with malformed results,
\* and on the same list without them
H_FilterMalformed ==
  /\ pc = "idle"
  /\ \E n \in 1..MaxResults : \E organic_results \in [1..n -> MixedItems] :
       rq' = HelperCall("build_search_query_and_filter_candidates of malformed",
                        [organic_results |-> organic_results],
                        [ all |-> build_search_query_and_filter_candidates(organic_results),
                          wellformed |-> build_search_query_and_filter_candidates(
                                           SelectSeq(organic_results,
                                                     LAMBDA item : ~Malformed(item))) ])
  /\ pc' = "done"
  /\ UNCHANGED <<now, ticks, file, inserted, is_loaded, faiss_index, username_list,
                 embeddings_loaded,
                 auto_scraping_enabled, runs, calls, pre, result>>

\* the aggregated metrics handed to the fallback calculator: none, or one
\* value of each field it reads
ManualMetrics ==
  {NoRecord} \cup
  [ postsAnalyzed : {2},
    consistencyScore : {-300, 7654, 8500, 12000},
    commentShare : {0, 3333, 10000},
    commentsPer10kViews : {0, 33, 150},
    hashtagCounts : {{}, {"fit"}} ]

\* calculate_scores_manually(metrics, username), called twice on the same
\* metrics; the function reads metrics and assigns nothing to it
H_CalculateScores ==
  /\ pc = "idle"
  /\ \E metrics \in ManualMetrics :
       rq' = HelperCall("calculate_scores_manually",
                        [metrics |-> metrics, username |-> "jl"],
                        [scores |-> calculate_scores_manually(metrics, "jl"),
                         again |-> calculate_scores_manually(metrics, "jl"),
                         metrics |-> metrics])
  /\ pc' = "done"
  /\ UNCHANGED <<now, ticks, file, inserted, is_loaded, faiss_index, username_list,
                 embeddings_loaded,
                 auto_scraping_enabled, runs, calls, pre, result>>

\* scrape_complete_instagram_profile and scrape_complete_instagram_profile_async
\* for one username, given the same three scraper responses
H_ScrapeComplete ==
  /\ pc = "idle"
  /\ \E posts_response \in PostsResponses, profile_response \in ProfileResponses,
        alt_response \in AlternativeResponses :
       rq' = HelperCall("scrape_complete_instagram_profile",
                        [posts_response |-> posts_response,
                         profile_response |-> profile_response,
                         alt_response |-> alt_response],
                        [sync |-> scrape_complete_instagram_profile(
                                    "jl", posts_response, profile_response, alt_response),
                         async |-> scrape_complete_instagram_profile_async(
                                     "jl", posts_response, profile_response, alt_response)])
  /\ pc' = "done"
  /\ UNCHANGED <<now, ticks, file, inserted, is_loaded, faiss_index, username_list,
                 embeddings_loaded,
                 auto_scraping_enabled, runs, calls, pre, result>>

(***************************************************************************)
(* api_clients.py: message_model and message_model_async.  The LLM service *)
(* is a sequence of outcomes, one for each attempt that may be made; the   *)
(* call gives its return value and the order of its attempts and sleeps.   *)
(***************************************************************************)
DefaultMaxRetries == 3

\* what one attempt can meet: an exception, a status other than 200 (async:
\* the openai client of the sync version raises for it), or a completion
AttemptOutcomes(mode) ==
  { [kind |-> "exception", content |-> ""],
    [kind |-> "content", content |-> ""],
    [kind |-> "content", content |-> "  "],
    [kind |-> "content", content |-> " ok "] }
  \cup (IF mode = "async" THEN {[kind |-> "http_error", content |-> ""]} ELSE {})

\* for attempt in range(max_retries): return the stripped content when there
\* is one; sleep 2 ** attempt in the except branch when an attempt is left
RECURSIVE MessageModelLoop(_, _, _, _)
MessageModelLoop(outcomes, attempt, max_retries, events) ==
  IF attempt >= max_retries THEN [content |-> None, events |-> events]
  ELSE LET o == outcomes[attempt + 1]
           tried == Append(events, Call("attempt", attempt))
       IN IF o.kind = "content" /\ Strip(o.content) # ""
          THEN [content |-> Strip(o.content), events |-> tried]
          ELSE MessageModelLoop(outcomes, attempt + 1, max_retries,
                 IF o.kind = "exception" /\ attempt < max_retries - 1
                 THEN Append(tried, Call("sleep", 2 ^ attempt)) ELSE tried)

\* a message_model that does not look at the client and the key
message_model_unchecked(client, key, outcomes, max_retries) ==
  MessageModelLoop(outcomes, 0, max_retries, <<>>)

message_model(client, key, outcomes, max_retries) ==
  IF ~client \/ ~key THEN [content |-> None, events |-> <<>>]
  ELSE MessageModelLoop(outcomes, 0, max_retries, <<>>)

message_model_async(key, outcomes, max_retries) ==
  IF ~key THEN [content |-> None, events |-> <<>>]
  ELSE MessageModelLoop(outcomes, 0, max_retries, <<>>)

\* message_model or message_model_async is called once
H_MessageModel ==
  /\ pc = "idle"
  /\ \E mode \in {"sync", "async"}, client \in BOOLEAN, key \in BOOLEAN,
        max_retries \in 0..DefaultMaxRetries :
       \E outcomes \in [1..max_retries -> AttemptOutcomes(mode)] :
         /\ mode = "async" => client
         /\ rq' = HelperCall("message_model",
                    [mode |-> mode, client |-> client, key |-> key,
                     outcomes |-> outcomes, max_retries |-> max_retries],
                    IF mode = "sync" THEN message_model(client, key, outcomes, max_retries)
                    ELSE message_model_async(key, outcomes, max_retries))
  /\ pc' = "done"
  /\ UNCHANGED <<now, ticks, file, inserted, is_loaded, faiss_index, username_list,
                 embeddings_loaded,
                 auto_scraping_enabled, runs, calls, pre, result>>

NextHelpers ==
  \/ Finish
  \/ H_Resolve
  \/ H_LooksLikeName
  \/ H_FilterCandidates
  \/ H_CalculateScores
  \/ H_ScrapeComplete
  \/ H_MessageModel
  \/ H_FilterMalformed
  \/ H_AggregatePosts

\* calls of the pure helpers of api_clients.py and workflow_logic.py
SpecHelpers == Init /\ [][NextHelpers]_vars

(***************************************************************************)
(* Calls of the matcher, fast_semantic_matcher, one call at a time.        *)
(***************************************************************************)
\* load_precomputed_embeddings()
M_LoadPrecomputed ==
  /\ pc = "idle"
  /\ \E readable \in BOOLEAN, index_file \in IndexFiles :
     \E mapping_file \in MappingFiles(index_file) :
       LET loaded == load_precomputed_embeddings(readable, index_file, mapping_file)
       IN /\ is_loaded' = loaded.is_loaded
          /\ faiss_index' = loaded.faiss_index
          /\ username_list' = loaded.username_list
          /\ rq' = HelperCall("load_precomputed_embeddings",
                              [readable |-> readable, index_file |-> index_file,
                               mapping_file |-> mapping_file],
                              [raised |-> FALSE])
  /\ pc' = "done"
  /\ UNCHANGED <<now, ticks, file, inserted, embeddings_loaded, auto_scraping_enabled,
                 runs, calls, pre, result>>

\* load_faiss_index(index_path, mapping_path)
M_LoadFaissIndex ==
  /\ pc = "idle"
  /\ \E index_file \in IndexFiles : \E mapping_file \in MappingFiles(index_file) :
       LET loaded == load_faiss_index(index_file, mapping_file)
       IN /\ faiss_index' = loaded.faiss_index
          /\ username_list' = loaded.username_list
          /\ rq' = HelperCall("load_faiss_index",
                              [index_file |-> index_file, mapping_file |-> mapping_file],
                              [raised |-> loaded.raised])
  /\ pc' = "done"
  /\ UNCHANGED <<now, ticks, file, inserted, is_loaded, embeddings_loaded,
                 auto_scraping_enabled, runs, calls, pre, result>>

\* build_faiss_index(embeddings, usernames), one embedding row per username
M_BuildFaissIndex ==
  /\ pc = "idle"
  /\ \E usernames \in { <<"JoLee">>, <<"JoLee", "jl">> } :
       LET built == build_faiss_index([rows |-> usernames], usernames)
       IN /\ faiss_index' = built.faiss_index
          /\ username_list' = built.username_list
          /\ rq' = HelperCall("build_faiss_index", [usernames |-> usernames],
                              [raised |-> built.raised])
  /\ pc' = "done"
  /\ UNCHANGED <<now, ticks, file, inserted, is_loaded, embeddings_loaded,
                 auto_scraping_enabled, runs, calls, pre, result>>

\* search_by_text(text, top_k)
M_Search ==
  /\ pc = "idle"
  /\ \E top_k \in 1..MaxTopK : \E idxs_flat \in SearchPositions(top_k) :
       rq' = HelperCall("search_by_text",
                        [top_k |-> top_k, idxs_flat |-> idxs_flat,
                         scores_flat |-> SearchScores(idxs_flat)],
                        search_by_text(SearchScores(idxs_flat), idxs_flat))
  /\ pc' = "done"
  /\ UNCHANGED <<now, ticks, file, inserted, is_loaded, faiss_index, username_list,
                 embeddings_loaded, auto_scraping_enabled, runs, calls, pre, result>>

\* find_semantic_matches(product_description, top_k), its first step: the
\* summaries are loaded when they are not loaded yet
M_FindMatches ==
  /\ pc = "idle"
  /\ IF is_loaded
     THEN UNCHANGED <<is_loaded, faiss_index, username_list>>
     ELSE \E readable \in BOOLEAN, index_file \in IndexFiles :
          \E mapping_file \in MappingFiles(index_file) :
            LET loaded == load_precomputed_embeddings(readable, index_file, mapping_file)
            IN /\ is_loaded' = loaded.is_loaded
               /\ faiss_index' = loaded.faiss_index
               /\ username_list' = loaded.username_list
  /\ \E product_description \in ProductDescriptions, influencer_data \in MatcherSummaries,
        top_k \in 1..MaxTopK :
       rq' = [api |-> "find_semantic_matches",
              args |-> [product_description |-> product_description,
                        influencer_data |-> influencer_data, top_k |-> top_k]]
  /\ pc' = "matching"
  /\ UNCHANGED <<now, ticks, file, inserted, embeddings_loaded, auto_scraping_enabled,
                 runs, calls, pre, result>>

\* find_semantic_matches, its second step: the vector search or the keyword
\* scorer over the summaries held
M_Match ==
  /\ pc = "matching"
  /\ \E idxs_flat \in SearchPositions(rq.args.top_k) :
     \E scores_flat \in MatchScores(idxs_flat) :
       rq' = HelperCall("find_semantic_matches",
                        [product_description |-> rq.args.product_description,
                         influencer_data |-> rq.args.influencer_data,
                         top_k |-> rq.args.top_k,
                         scores_flat |-> scores_flat, idxs_flat |-> idxs_flat],
                        find_semantic_matches(rq.args.product_description,
                                              rq.args.influencer_data,
                                              scores_flat, idxs_flat))
  /\ pc' = "done"
  /\ UNCHANGED <<now, ticks, file, inserted, is_loaded, faiss_index, username_list,
                 embeddings_loaded, auto_scraping_enabled, runs, calls, pre, result>>

NextMatcher ==
  \/ Finish
  \/ M_LoadPrecomputed
  \/ M_LoadFaissIndex
  \/ M_BuildFaissIndex
  \/ M_Search
  \/ M_FindMatches
  \/ M_Match

\* calls of the methods of fast_semantic_matcher.FastSemanticMatcher
SpecMatcher == Init /\ [][NextMatcher]_vars

(***************************************************************************)
(* api_clients.py: scrape_profile_and_posts_parallel_async, with the two   *)
(* tasks it creates.  The coroutine's position is pc, the tasks and what   *)
(* it took from them are in rq, and calls is the order of the events.      *)
(***************************************************************************)
\* a task before asyncio.create_task makes it
NoTask == [state |-> "none", raised |-> FALSE, value |-> NoRecord]

ParallelRequest(username) ==
  [ api |-> "parallel", username |-> username,
    profile_task |-> NoTask, posts_task |-> NoTask,
    joined |-> FALSE, profile_data |-> NoRecord, posts_data |-> <<>>,
    returned |-> NoRecord ]

\* what a finished profile task holds: the scraper's profile or None, or the
\* exception it raised
ProfileTaskOutcomes(username) ==
  { [state |-> "done", raised |-> FALSE,
     value |-> [profile |-> scrape_profile_info_only(username, response)]] :
      response \in ProfileResponses }
  \cup { [state |-> "done", raised |-> TRUE, value |-> NoRecord] }

\* what a finished posts task holds: the scraper's posts, or the exception
PostsTaskOutcomes(username) ==
  { [state |-> "done", raised |-> FALSE,
     value |-> [posts |-> scrape_instagram_posts_primary(username, response)]] :
      response \in PostsResponses }
  \cup { [state |-> "done", raised |-> TRUE, value |-> NoRecord] }

\* a gather that returns as soon as one task is done
GatherDone_first_completed(profile_task, posts_task) ==
  profile_task.state = "done" \/ posts_task.state = "done"

\* await asyncio.gather(profile_task, posts_task, return_exceptions=True)
\* resumes when both tasks are done
GatherDone(profile_task, posts_task) ==
  profile_task.state = "done" /\ posts_task.state = "done"

\* scrape_profile_and_posts_parallel_async(username) is called
P_Start ==
  /\ pc = "idle"
  /\ rq' = ParallelRequest("jl")
  /\ calls' = <<>>
  /\ pc' = "create_profile_task"
  /\ UNCHANGED <<now, ticks, file, inserted, is_loaded, faiss_index, username_list,
                 embeddings_loaded, auto_scraping_enabled, runs, pre, result>>

\* profile_task = asyncio.create_task(scrape_profile_info_only_async(username))
P_CreateProfileTask ==
  /\ pc = "create_profile_task"
  /\ rq' = [rq EXCEPT !.profile_task.state = "created"]
  /\ calls' = Append(calls, Call("create_task", "profile"))
  /\ pc' = "create_posts_task"
  /\ UNCHANGED <<now, ticks, file, inserted, is_loaded, faiss_index, username_list,
                 embeddings_loaded, auto_scraping_enabled, runs, pre, result>>

\* posts_task = asyncio.create_task(scrape_instagram_posts_primary_async(username))
P_CreatePostsTask ==
  /\ pc = "create_posts_task"
  /\ rq' = [rq EXCEPT !.posts_task.state = "created"]
  /\ calls' = Append(calls, Call("create_task", "posts"))
  /\ pc' = "await_gather"
  /\ UNCHANGED <<now, ticks, file, inserted, is_loaded, faiss_index, username_list,
                 embeddings_loaded, auto_scraping_enabled, runs, pre, result>>

\* the coroutine reaches await asyncio.gather(...) and is suspended
P_AwaitGather ==
  /\ pc = "await_gather"
  /\ calls' = Append(calls, Call("await", "gather"))
  /\ pc' = "gather"
  /\ UNCHANGED <<now, ticks, file, inserted, is_loaded, faiss_index, username_list,
                 embeddings_loaded, auto_scraping_enabled, runs, rq, pre, result>>

\* the event loop runs a created task up to its request, while the coroutine
\* is suspended
P_TaskStarts ==
  /\ pc = "gather"
  /\ \/ /\ rq.profile_task.state = "created"
        /\ rq' = [rq EXCEPT !.profile_task.state = "running"]
        /\ calls' = Append(calls, Call("start", "profile"))
     \/ /\ rq.posts_task.state = "created"
        /\ rq' = [rq EXCEPT !.posts_task.state = "running"]
        /\ calls' = Append(calls, Call("start", "posts"))
  /\ UNCHANGED <<now, ticks, file, inserted, is_loaded, faiss_index, username_list,
                 embeddings_loaded, auto_scraping_enabled, runs, pc, pre, result>>

\* a running task finishes, with a result or an exception
P_TaskCompletes ==
  /\ pc = "gather"
  /\ \/ /\ rq.profile_task.state = "running"
        /\ \E outcome \in ProfileTaskOutcomes(rq.username) :
             rq' = [rq EXCEPT !.profile_task = outcome]
        /\ calls' = Append(calls, Call("complete", "profile"))
     \/ /\ rq.posts_task.state = "running"
        /\ \E outcome \in PostsTaskOutcomes(rq.username) :
             rq' = [rq EXCEPT !.posts_task = outcome]
        /\ calls' = Append(calls, Call("complete", "posts"))
  /\ UNCHANGED <<now, ticks, file, inserted, is_loaded, faiss_index, username_list,
                 embeddings_loaded, auto_scraping_enabled, runs, pc, pre, result>>

\* gather returns; an exception in place of a result becomes None or []
P_GatherReturns ==
  /\ pc = "gather"
  /\ GatherDone(rq.profile_task, rq.posts_task)
  /\ rq' = [rq EXCEPT
              !.joined = TRUE,
              !.profile_data = IF rq.profile_task.state = "done" /\ ~rq.profile_task.raised
                               THEN rq.profile_task.value.profile ELSE NoRecord,
              !.posts_data = IF rq.posts_task.state = "done" /\ ~rq.posts_task.raised
                             THEN rq.posts_task.value.posts ELSE <<>>]
  /\ calls' = Append(calls, Call("return", "gather"))
  /\ pc' = "after_gather"
  /\ UNCHANGED <<now, ticks, file, inserted, is_loaded, faiss_index, username_list,
                 embeddings_loaded, auto_scraping_enabled, runs, pre, result>>

\* no posts but a profile: the alternative scraper is called, a blocking call
\* whose exception is caught
P_Alternative ==
  /\ pc = "after_gather"
  /\ rq.posts_data = <<>> /\ rq.profile_data # NoRecord
  /\ \E alt_response \in AlternativeResponses, alt_raised \in BOOLEAN :
       LET alt == scrape_profile_and_posts_alternative(rq.username, alt_response)
       IN rq' = [rq EXCEPT !.posts_data = IF ~alt_raised /\ alt[2] # <<>> THEN alt[2] ELSE @]
  /\ calls' = Append(calls, Call("scrape_alternative", rq.username))
  /\ pc' = "return"
  /\ UNCHANGED <<now, ticks, file, inserted, is_loaded, faiss_index, username_list,
                 embeddings_loaded, auto_scraping_enabled, runs, pre, result>>

\* return profile_data, posts_data or []
P_Return ==
  /\ \/ pc = "return"
     \/ pc = "after_gather" /\ ~(rq.posts_data = <<>> /\ rq.profile_data # NoRecord)
  /\ rq' = [rq EXCEPT !.returned = [profile |-> rq.profile_data, posts |-> rq.posts_data]]
  /\ pc' = "done"
  /\ UNCHANGED <<now, ticks, file, inserted, is_loaded, faiss_index, username_list,
                 embeddings_loaded, auto_scraping_enabled, runs, calls, pre, result>>

NextParallel ==
  \/ Finish
  \/ P_Start
  \/ P_CreateProfileTask
  \/ P_CreatePostsTask
  \/ P_AwaitGather
  \/ P_TaskStarts
  \/ P_TaskCompletes
  \/ P_GatherReturns
  \/ P_Alternative
  \/ P_Return

\* calls of scrape_profile_and_posts_parallel_async
SpecParallel == Init /\ [][NextParallel]_vars

(***************************************************************************)
(* api_clients.py: AsyncSessionManager.  Sessions are numbered in the      *)
(* order they are made, 0 is None; session i owns connector i, and a       *)
(* session is closed once its connector is.  The manager is in rq.         *)
(***************************************************************************)
MaxSessions == 3

SessionTasks == {"profile", "posts", "search"}

\* session_manager = AsyncSessionManager(): __init__
NewSessionManager ==
  [ api |-> "session_manager", session |-> 0, connector |-> 0,
    closed |-> <<>>,
    held |-> [t \in SessionTasks |-> 0],
    last |-> [op |-> "__init__", task |-> "", was_open |-> FALSE, before |-> 0,
              returned |-> 0] ]

\* a get_session that makes a session only when there is none yet
NeedsNewSession_none_only(session, closed) == session = 0

\* if self.session is None or self.session.closed
NeedsNewSession(session, closed) == session = 0 \/ closed[session]

\* the module is imported: session_manager = AsyncSessionManager()
S_New ==
  /\ pc = "idle" /\ rq.api # "session_manager"
  /\ rq' = NewSessionManager
  /\ pc' = "manager"
  /\ UNCHANGED <<now, ticks, file, inserted, is_loaded, faiss_index, username_list,
                 embeddings_loaded, auto_scraping_enabled, runs, calls, pre, result>>

\* a task calls get_session(); the coroutine has no await, so it runs whole,
\* also while close() is suspended
S_GetSession ==
  /\ pc \in {"manager", "closing"}
  /\ \E t \in SessionTasks :
       LET new == NeedsNewSession(rq.session, rq.closed)
           session == IF new THEN Len(rq.closed) + 1 ELSE rq.session
       IN /\ new => Len(rq.closed) < MaxSessions
          /\ rq' = [rq EXCEPT
                      !.session = session,
                      !.connector = IF new THEN session ELSE @,
                      !.closed = IF new THEN Append(@, FALSE) ELSE @,
                      !.held[t] = session,
                      !.last = [op |-> "get_session", task |-> t,
                                was_open |-> rq.session # 0 /\ ~rq.closed[rq.session],
                                before |-> rq.session, returned |-> session]]
  /\ UNCHANGED <<now, ticks, file, inserted, is_loaded, faiss_index, username_list,
                 embeddings_loaded, auto_scraping_enabled, runs, pc, calls, pre, result>>

\* close(): if self.session and not self.session.closed: await self.session.close()
S_CloseSession ==
  /\ pc = "manager"
  /\ rq' = [rq EXCEPT
              !.closed = IF rq.session # 0 /\ ~rq.closed[rq.session]
                         THEN [@ EXCEPT ![rq.session] = TRUE] ELSE @,
              !.last = [op |-> "closing", task |-> "", was_open |-> FALSE,
                        before |-> rq.session, returned |-> 0]]
  /\ pc' = "closing"
  /\ UNCHANGED <<now, ticks, file, inserted, is_loaded, faiss_index, username_list,
                 embeddings_loaded, auto_scraping_enabled, runs, calls, pre, result>>

\* close(): if self.connector: await self.connector.close(), and close() returns
S_CloseConnector ==
  /\ pc = "closing"
  /\ rq' = [rq EXCEPT
              !.closed = IF rq.connector # 0 THEN [@ EXCEPT ![rq.connector] = TRUE] ELSE @,
              !.last = [op |-> "close", task |-> "", was_open |-> FALSE,
                        before |-> rq.session, returned |-> 0]]
  /\ pc' = "manager"
  /\ UNCHANGED <<now, ticks, file, inserted, is_loaded, faiss_index, username_list,
                 embeddings_loaded, auto_scraping_enabled, runs, calls, pre, result>>

NextSession ==
  \/ S_New
  \/ S_GetSession
  \/ S_CloseSession
  \/ S_CloseConnector

\* the life of the one AsyncSessionManager
SpecSession == Init /\ [][NextSession]_vars

(***************************************************************************)
(* unified_data_manager.py: _update_progress, and the control flow of      *)
(* _find_influencer_anywhere_sync with _auto_scrape_and_save_sync run three *)
(* times side by side on the same collaborator outcomes: with no progress  *)
(* callback, with one, and with one that raises.  The three runs are in rq. *)
(***************************************************************************)
ProgressCallbacks == {"none", "set", "raises"}

\* an _update_progress without the try around the callback
_update_progress_unguarded(callback, percentage) ==
  [ raised |-> callback = "raises",
    delivered |-> IF callback = "set" THEN <<percentage>> ELSE <<>> ]

\* _update_progress: the callback is called inside try / except: pass; with no
\* callback the line is printed
_update_progress(callback, percentage) ==
  [ raised |-> FALSE,
    delivered |-> IF callback = "set" THEN <<percentage>> ELSE <<>> ]

\* the outcomes of the collaborators of one query
RunOutcomes ==
  [ is_influencer : BOOLEAN,
    lookup : {"main", "embeddings", "miss"},
    auto_scrape : BOOLEAN,
    search : {"results", "empty", "raise"},
    candidates : BOOLEAN,
    selection : {"profile", "no_text", "no_url", "no_username"},
    scrape : {"profile_and_posts", "profile", "none", "raise"},
    insert : {"saved", "saved_elsewhere", "failed", "raise"} ]

NewRun ==
  [ pc |-> "start", in_try |-> FALSE, raised |-> FALSE, calls |-> <<>>,
    writes |-> <<>>, progress |-> <<>>, source |-> None, found |-> FALSE ]

\* consecutive _update_progress calls, up to the first that raises
RECURSIVE Report(_, _, _)
Report(run, callback, percentages) ==
  IF percentages = <<>> \/ run.raised THEN run
  ELSE LET p == _update_progress(callback, Head(percentages))
       IN Report([run EXCEPT !.raised = p.raised, !.progress = @ \o p.delivered],
                 callback, Tail(percentages))

Returns(run, found, source) ==
  [run EXCEPT !.pc = "returned", !.found = found, !.source = source]

\* an exception leaves _find_influencer_anywhere_sync
Propagates(run) == [run EXCEPT !.pc = "returned", !.source = "<exception>"]

\* except Exception as e of _auto_scrape_and_save_sync
Except(run, callback) ==
  LET told == Report([run EXCEPT !.raised = FALSE], callback, <<100>>)
  IN IF told.raised THEN Propagates(told) ELSE Returns(told, FALSE, "scraping_failed")

\* where a raise inside the step leads
Raised(run, callback) == IF run.in_try THEN Except(run, callback) ELSE Propagates(run)

\* the progress reports of a step, then what follows them
Goes(run, callback, percentages, next) ==
  LET told == Report(run, callback, percentages)
  IN IF told.raised THEN Raised(told, callback) ELSE [told EXCEPT !.pc = next]

Ends(run, callback, percentages, found, source) ==
  LET told == Report(run, callback, percentages)
  IN IF told.raised THEN Raised(told, callback) ELSE Returns(told, found, source)

Called(run, op) == [run EXCEPT !.calls = Append(@, op)]

\* one step of the run, from progress report to progress report
SyncRunStep(run, callback, outcomes) ==
  CASE run.pc = "start" -> Goes(run, callback, <<10, 20>>, "resolve")
    [] run.pc = "resolve" ->
         IF ~outcomes.is_influencer
         THEN Returns(Called(run, "spell_correct_influencer_name"), FALSE, "not_influencer")
         ELSE Goes(Called(run, "spell_correct_influencer_name"), callback, <<30>>, "normalize")
    [] run.pc = "normalize" ->
         Goes(Called(run, "enhanced_influencer_normalization"), callback, <<40>>, "lookup")
    [] run.pc = "lookup" ->
         IF outcomes.lookup = "main"
         THEN Ends(Called(run, "_search_main_database"), callback, <<100>>, TRUE, "main_db")
         ELSE IF outcomes.lookup = "embeddings"
         THEN Ends(Called(run, "_search_embeddings_database"), callback, <<100>>,
                   TRUE, "embeddings")
         ELSE IF outcomes.auto_scrape
         THEN LET told == Report(Called(run, "_search_embeddings_database"), callback, <<45>>)
              IN IF told.raised THEN Propagates(told)
                 ELSE Goes([told EXCEPT !.in_try = TRUE], callback, <<50, 55>>, "search")
         ELSE Ends(Called(run, "_search_embeddings_database"), callback, <<100>>,
                   FALSE, "not_found")
    [] run.pc = "search" ->
         IF outcomes.search = "raise" THEN Except(Called(run, "search_google"), callback)
         ELSE IF outcomes.search = "empty"
         THEN Ends(Called(run, "search_google"), callback, <<100>>, FALSE, "scraping_failed")
         ELSE Goes(Called(run, "search_google"), callback, <<60>>, "candidates")
    [] run.pc = "candidates" ->
         IF ~outcomes.candidates
         THEN Ends(run, callback, <<100>>, FALSE, "scraping_failed")
         ELSE Goes(run, callback, <<65>>, "select")
    [] run.pc = "select" ->
         IF outcomes.selection = "profile"
         THEN Goes(Called(run, "message_model"), callback, <<70, 75>>, "scrape")
         ELSE Ends(Called(run, "message_model"), callback, <<100>>, FALSE, "scraping_failed")
    [] run.pc = "scrape" ->
         IF outcomes.scrape = "raise"
         THEN Except(Called(run, "scrape_complete_instagram_profile"), callback)
         ELSE IF outcomes.scrape = "none"
         THEN Ends(Called(run, "scrape_complete_instagram_profile"), callback, <<100>>,
                   FALSE, "scraping_failed")
         ELSE Goes(Called(run, "scrape_complete_instagram_profile"), callback,
                   <<85, 90, 95>>, "insert")
    [] run.pc = "insert" ->
         LET inserting == Called(run, "insert_complete_profile")
             written == [inserting EXCEPT !.writes = Append(@, "save_database")]
         IN IF outcomes.insert = "raise" THEN Except(inserting, callback)
            ELSE IF outcomes.insert = "failed"
            THEN Ends(written, callback, <<100>>, FALSE, "scraping_failed")
            ELSE IF outcomes.insert = "saved"
            THEN Ends(written, callback, <<100>>, TRUE, "auto_scraped")
            ELSE Ends(written, callback, <<100>>, FALSE, "scraping_failed")
    [] OTHER -> run

\* the same query is given to the three managers
G_Start ==
  /\ pc = "idle"
  /\ \E outcomes \in RunOutcomes :
       rq' = [ api |-> "progress", outcomes |-> outcomes,
               run |-> [callback \in ProgressCallbacks |-> NewRun] ]
  /\ pc' = "running"
  /\ UNCHANGED <<now, ticks, file, inserted, is_loaded, faiss_index, username_list,
                 embeddings_loaded, auto_scraping_enabled, runs, calls, pre, result>>

\* each of the three runs takes its next step
G_Step ==
  /\ pc = "running"
  /\ rq' = [rq EXCEPT !.run = [callback \in ProgressCallbacks |->
                                 SyncRunStep(rq.run[callback], callback, rq.outcomes)]]
  /\ pc' = IF \A callback \in ProgressCallbacks : rq'.run[callback].pc = "returned"
           THEN "done" ELSE "running"
  /\ UNCHANGED <<now, ticks, file, inserted, is_loaded, faiss_index, username_list,
                 embeddings_loaded, auto_scraping_enabled, runs, calls, pre, result>>

NextProgress ==
  \/ Finish
  \/ G_Start
  \/ G_Step

\* one query answered with each kind of progress callback
SpecProgress == Init /\ [][NextProgress]_vars

(***************************************************************************)
(* Properties.                                                             *)
(***************************************************************************)
ScrapeOps == {"scrape_posts", "scrape_profile", "scrape_alternative"}

HasCall(ops) == \E i \in 1..Len(calls) : calls[i].op \in ops

LastCall == calls[Len(calls)]

\* the request ended by its store write, with this outcome
EndedByWrite(outcomes) ==
  pc = "done" /\ calls # <<>> /\ LastCall.op = "write" /\ LastCall.arg \in outcomes

\* the terms find_influencer_anywhere is to look up: corrected name, search_name,
\* aliases, handles and the original query
GeneratedTerms ==
  { Strip(t) : t \in {rq.corrected_name, rq.normalized.search_name, rq.query}
                       \cup Range(rq.normalized.aliases)
                       \cup Range(rq.normalized.handles) } \ {""}

\* C1: in find_influencer_anywhere, sync or async, every scrape call comes after
\* a lookup in the main store and a lookup in the embeddings store for each
\* generated search term, and all of those lookups missed.
C1_LookupsBeforeScrape ==
  (rq.api = "udm" /\ HasCall(ScrapeOps)) =>
    LET first == CHOOSE i \in 1..Len(calls) :
                   /\ calls[i].op \in ScrapeOps
                   /\ \A j \in 1..(i - 1) : calls[j].op \notin ScrapeOps
        before == {calls[j] : j \in 1..(first - 1)}
    IN /\ \A t \in GeneratedTerms :
            /\ Call("main_lookup_miss", t) \in before
            /\ Call("embeddings_lookup_miss", t) \in before
       /\ \A c \in before : c.op \notin {"main_lookup_hit", "embeddings_lookup_hit"}

C1_ScrapedAfterLookups ==
  /\ rq.api = "udm" /\ rq.mode = "async" /\ pc = "persist"
  /\ HasCall(ScrapeOps)
  /\ Cardinality(GeneratedTerms) >= 3

\* C2: once the resolver's result has is_influencer false, the request has ended
\* with (False, None, "not_influencer"), has made no web search and no scrape
\* call, and has left the profile store as it was.
C2_NotInfluencerStops ==
  (rq.api = "udm" /\ rq.spelling # NoRecord /\ ~rq.spelling.is_influencer) =>
    /\ pc = "done"
    /\ result = [found |-> FALSE, data |-> NoRecord, source |-> "not_influencer"]
    /\ ~HasCall(ScrapeOps \cup {"search", "write"})
    /\ get_database = pre

C2_RejectedWithStore ==
  /\ pc = "done" /\ result.source = "not_influencer"
  /\ rq.query = "best tv" /\ pre # EmptyDb

\* the profile the store held for the selected username when the request began
StoredBefore == DictGet(pre, Lower(rq.username))

\* C3: in run_workflow, when the profile stored for the selected username was
\* scraped less than 7 days ago, the request ends at the cache check: it returns
\* the stored record itself, makes no scrape call, does not score, and does not
\* write to the store.
C3_CacheHitShortCircuit ==
  ( /\ rq.api = "workflow" /\ HasCall({"cache_check"})
    /\ StoredBefore # NoRecord
    /\ now - StoredBefore.metadata.last_scraped < StaleAge ) =>
    /\ pc = "done"
    /\ result.found /\ result.data = StoredBefore
    /\ ~HasCall(ScrapeOps \cup {"write"})
    /\ \A i \in 1..Len(calls) : calls[i] # Call("llm", "scoring")
    /\ get_database = pre

C3_ServedFromCache ==
  /\ rq.api = "workflow" /\ pc = "done"
  /\ calls # <<>> /\ LastCall.op = "cache_check"
  /\ result.found /\ result.data.posts.total_posts > 0

\* C4: a record found in the profile store whose last_scraped is 7 days old or
\* older is never returned as the result of find_influencer_anywhere.
C4_StaleNeverServed ==
  (rq.api = "udm" /\ pc = "done" /\ result.found /\ StartsWith(result.source, "main_db:")) =>
    now - result.data.metadata.last_scraped < StaleAge

\* C5: check_profile_exists classifies a stored profile as fresh exactly when
\* now minus last_scraped is less than 7 days.
C5_StalenessBoundary ==
  \A i \in 1..Len(get_database) :
    check_profile_exists(get_database[i].key)[1]
      = (now - get_database[i].rec.metadata.last_scraped < StaleDays * SecondsPerDay)

C5_StaleAfterSevenDaysAndASecond ==
  /\ rq.api = "workflow" /\ pc = "w_scrape"
  /\ rq.cached # NoRecord
  /\ now - rq.cached.metadata.last_scraped = StaleDays * SecondsPerDay + 1

\* C6: when run_workflow reports success for the selected username u, the record
\* it returns is the one stored under lowercase(u) and is the record this run
\* wrote, with this run's posts, metrics and scores.
C6_PersistReturnsStored ==
  (rq.api = "workflow" /\ EndedByWrite({"ok"}) /\ result.found) =>
    /\ result.data = DictGet(get_database, Lower(rq.username))
    /\ result.data = BuildProfileRecord(rq.profile_data, rq.analyzed_posts, rq.metrics,
                                        rq.scores, now)

\* C7: when the store write fails, the request ends in failure and the store
\* still holds exactly the profiles it held before the attempt.
C7_FailedWriteKeepsStore ==
  EndedByWrite(SaveOutcomes \ {"ok"}) => (~result.found /\ get_database = pre)

\* C8: the store holds at most one record per lowercased username, filed under
\* the lowercased username, and each record is entirely the record of the latest
\* successful insert for that username.
C8_OneRecordPerUsername ==
  \A i \in 1..Len(get_database) :
    /\ \A j \in 1..Len(get_database) :
         Lower(get_database[i].key) = Lower(get_database[j].key) => i = j
    /\ get_database[i].key = Lower(get_database[i].rec.basic_info.username)
    /\ get_database[i].rec = DictGet(inserted, Lower(get_database[i].key))

C8_ReinsertedInOtherCase ==
  /\ EndedByWrite({"ok"})
  /\ DictHas(pre, Lower(rq.profile_data.username))
  /\ DictGet(pre, Lower(rq.profile_data.username)).basic_info.username
       # rq.profile_data.username
  /\ DictGet(pre, Lower(rq.profile_data.username)).posts.total_posts
       # Len(rq.analyzed_posts)

\* C9: when the selection LLM returns no text and a candidate exists,
\* find_influencer_anywhere goes on with the first candidate as the selected
\* profile, confidence 0.5.
C9_SelectionFallback ==
  ( /\ rq.api = "udm" /\ calls # <<>> /\ LastCall = Call("llm", "selection")
    /\ rq.selection_text = NoReply /\ rq.candidates # <<>> ) =>
    /\ pc # "done"
    /\ rq.selected_profile # NoRecord
    /\ rq.selected_profile.instagram_url = rq.candidates[1].url
    /\ rq.selected_profile.confidence = 50

\* C10: when the scrape step of run_workflow ends without profile data, the
\* request ends in failure and writes nothing to the store, posts or no posts.
C10_NoProfileIsFatal ==
  (rq.api = "workflow" /\ HasCall(ScrapeOps) /\ rq.scraped_profile = NoRecord) =>
    /\ pc = "done" /\ ~result.found
    /\ ~HasCall({"write"})
    /\ get_database = pre

AlternativeCalls == Cardinality({i \in 1..Len(calls) : calls[i].op = "scrape_alternative"})

\* C11: in one scrape of a username by find_influencer_anywhere (sync or
\* async), when the primary posts fetch gave no posts and the profile fetch
\* gave a profile, the alternative combined scraper was called exactly once
\* by the time the scrape step is over; when the primary posts fetch gave
\* posts, it was not called at all.
C11_AlternativeScraperOnce ==
  (rq.api = "udm" /\ HasCall({"scrape_posts"})) =>
    /\ (rq.primary_posts = <<>> /\ rq.primary_profile # NoRecord) => AlternativeCalls = 1
    /\ rq.primary_posts # <<>> => AlternativeCalls = 0

C11_AsyncPostsRetried ==
  /\ rq.api = "udm" /\ rq.mode = "async" /\ pc = "persist"
  /\ rq.primary_posts = <<>> /\ rq.primary_profile # NoRecord
  /\ rq.posts_raw # <<>>
  /\ AlternativeCalls = 1

ScoredByLlm == rq.api = "workflow" /\ Call("llm", "scoring") \in Range(calls)

ExpectedScores ==
  LET parsed == parse_scoring_response(rq.scoring_text, rq.username, rq.metrics)
      manual == calculate_scores_manually(rq.metrics, rq.username)
  IN IF rq.scoring_text # NoReply
        /\ ~(parsed.Authenticity = 0 /\ parsed.BrandSafety = 0
             /\ parsed.AudienceMatch = 0 /\ parsed.ContentQuality = 0)
     THEN parsed ELSE manual

Resolved == rq.api = "helper" /\ rq.fn = "spell_correct_influencer_name"

\* C13: resolver override law: whenever the LLM replied, the parsed reply
\* says the query is not an influencer and _looks_like_name(query) is true,
\* the resolver's result has is_influencer = true and confidence exactly
\* 0.75, in the sync and in the async resolver.
C13_ResolverOverride ==
  (Resolved /\ rq.args.response # NoReply
     /\ ~parse_spelling_correction_response(rq.args.response, rq.args.query).is_influencer
     /\ _looks_like_name(rq.args.query)) =>
    (rq.value.is_influencer /\ rq.value.confidence = 75)

C13_LlmNoOverridden ==
  /\ Resolved /\ rq.args.mode = "async" /\ rq.args.query = "jo lee"
  /\ rq.args.response = <<"Confidence: 95", "Is Influencer: No", "Reasoning: a topic">>
  /\ rq.value.is_influencer /\ rq.value.confidence = 75

\* C14: when the LLM is unreachable (message_model returned nothing or the
\* call raised), the resolver's result is the heuristic's: is_influencer =
\* _looks_like_name(query), corrected_name = the query as given, confidence
\* 0.7 when name-like and 0.2 otherwise.
C14_HeuristicFallback ==
  (Resolved /\ rq.args.response = NoReply) =>
    /\ rq.value.is_influencer = _looks_like_name(rq.args.query)
    /\ rq.value.corrected_name = rq.args.query
    /\ rq.value.confidence = (IF _looks_like_name(rq.args.query) THEN 70 ELSE 20)

C14_FallbackRejectsTopic ==
  /\ Resolved /\ rq.args.response = NoReply /\ rq.args.query = "jo lee review"
  /\ ~rq.value.is_influencer /\ rq.value.confidence = 20
  /\ rq.value.corrected_name = "jo lee review"

LookedAt == rq.api = "helper" /\ rq.fn = "_looks_like_name"

\* 1 to 4 whitespace-separated alphabetic tokens within the length bounds of
\* their count: one token of 3 to 20, two or three of 2 to 15, four of 2 to 12
WithinNameBounds(query) ==
  LET words == Words(query)
      n == Len(words)
      lo == IF n = 1 THEN 3 ELSE 2
      hi == IF n = 1 THEN 20 ELSE IF n = 4 THEN 12 ELSE 15
  IN /\ n \in 1..4
     /\ \A i \in 1..n : IsAlpha(words[i]) /\ lo <= Len(words[i]) /\ Len(words[i]) <= hi

\* the query holds a non-name indicator as a substring, letter case ignored
HoldsIndicator(query) ==
  \E i \in 1..Len(non_name_indicators) : Contains(non_name_indicators[i], Lower(query))

\* C15 as stated: _looks_like_name returns true for every query made of 1 to 4
\* whitespace-separated alphabetic tokens within the per-token length bounds.
C15_NameShapesAccepted ==
  (LookedAt /\ WithinNameBounds(rq.args.query)) => rq.value

\* C15 as amended: _looks_like_name returns true for every query whose
\* lowercased form is made of 1 to 4 whitespace-separated alphabetic tokens
\* within the per-token length bounds and holds no non-name indicator as a
\* substring.
C15_NameShapesWithoutIndicatorAccepted ==
  (LookedAt /\ WithinNameBounds(Lower(rq.args.query)) /\ ~HoldsIndicator(rq.args.query))
    => rq.value

C15_FourLongWordsAccepted ==
  /\ LookedAt /\ rq.value
  /\ rq.args.query = "abcdefghijkl jo jo abcdefghijkl"

\* C16: _looks_like_name returns false for every query that holds a non-name
\* indicator as a substring, letter case ignored, whatever its tokens are.
C16_IndicatorRejected ==
  (LookedAt /\ HoldsIndicator(rq.args.query)) => ~rq.value

C16_NameShapedTopicRejected ==
  /\ LookedAt /\ ~rq.value
  /\ rq.args.query = "TOPher"
  /\ WithinNameBounds(rq.args.query)

Filtered == rq.api = "helper" /\ rq.fn = "build_search_query_and_filter_candidates"

\* the last path segment of a candidate's url
HandleOf(url) ==
  LET segments == NonEmpty(Split(url, "/"))
  IN IF segments = <<>> THEN "" ELSE segments[Len(segments)]

\* a link without its query parameters and trailing slashes
WithoutQueryAndSlash(link) ==
  LET q == Find(link, "?")
      base == IF q = 0 THEN link ELSE SubSeq(link, 1, q - 1)
  IN RStripSlash(base)

\* the positions of the organic results that pass the strict filter
StrictPositions(organic_results) ==
  {k \in 1..Len(organic_results) : StrictHandle(organic_results[k]) # None}

\* C17: no two candidates returned by build_search_query_and_filter_candidates
\* have handles that are equal ignoring letter case; each handle that passes
\* the strict filter has exactly one candidate, made from the first result in
\* result order with that handle; and two results whose links differ only by
\* query parameters or a trailing slash give exactly one candidate, the first.
C17_CandidatesDeduplicated ==
  Filtered =>
    LET results == rq.args.organic_results
        cands == rq.value
    IN /\ \A i, j \in 1..Len(cands) :
            Lower(HandleOf(cands[i].url)) = Lower(HandleOf(cands[j].url)) => i = j
       /\ \A k \in StrictPositions(results) :
            LET same == {m \in StrictPositions(results) :
                          Lower(StrictHandle(results[m])) = Lower(StrictHandle(results[k]))}
                first == CHOOSE m \in same : \A o \in same : m <= o
                made == {i \in 1..Len(cands) :
                          Lower(HandleOf(cands[i].url)) = Lower(StrictHandle(results[k]))}
            IN /\ Cardinality(made) = 1
               /\ \A i \in made :
                    /\ cands[i].title = results[first].title
                    /\ cands[i].url = WithoutQueryAndSlash(results[first].link)
       /\ (/\ Len(results) = 2
           /\ WithoutQueryAndSlash(results[1].link) = WithoutQueryAndSlash(results[2].link)
           /\ Contains("instagram.com/", results[1].link)
           /\ HandleOf(WithoutQueryAndSlash(results[1].link)) = "foo") =>
            /\ Len(cands) = 1
            /\ cands[1].title = results[1].title
            /\ HandleOf(cands[1].url) = "foo"

C17_ThreeSpellingsOneCandidate ==
  /\ Filtered
  /\ Len(rq.args.organic_results) = 3
  /\ rq.args.organic_results[1].link = "https://instagram.com/foo/?hl=en"
  /\ rq.args.organic_results[2].link = "https://instagram.com/foo"
  /\ rq.args.organic_results[3].link = "https://www.instagram.com/FOO/"
  /\ Len(rq.value) = 1
  /\ rq.value[1].url = "https://instagram.com/foo"
  /\ rq.value[1].title = "result 1"

\* what C18 says of the candidates, for a given reading of "the link contains
\* the profile domain"
FallbackLaw(domain_in_link) ==
  LET results == rq.args.organic_results
      cands == rq.value
      with_domain == {k \in 1..Len(results) : Contains(domain_in_link, results[k].link)}
  IN /\ (\E i \in 1..Len(cands) : cands[i].fallback) =>
          /\ StrictPositions(results) = {}
          /\ Len(cands) = 1
          /\ with_domain # {}
          /\ LET first == CHOOSE k \in with_domain : \A o \in with_domain : k <= o
             IN /\ cands[1].title = results[first].title
                /\ cands[1].url = WithoutQueryAndSlash(results[first].link)
     /\ StrictPositions(results) # {} =>
          \A i \in 1..Len(cands) :
            /\ ~cands[i].fallback
            /\ UrlParse(cands[i].url).hostname # None
            /\ Contains("instagram.com", UrlParse(cands[i].url).hostname)
            /\ Len(NonEmpty(Split(UrlParse(cands[i].url).path, "/"))) = 1
            /\ IsHandle(HandleOf(cands[i].url))

\* C18 as stated: a candidate is flagged fallback only if no result passed the
\* strict filter, and it is then the only candidate and is the first result
\* whose link contains the profile domain, instagram.com; when a result passes
\* the strict filter every candidate has a host containing the profile domain
\* and one path segment matching ^[a-z0-9._]+$, and none is flagged fallback.
C18_FallbackIsFirstWithDomain == Filtered => FallbackLaw("instagram.com")

\* C18 as amended: as stated, the fallback candidate being the first result
\* whose link contains the profile domain followed by a slash, instagram.com/.
C18_FallbackIsFirstWithDomainSlash == Filtered => FallbackLaw("instagram.com/")

C18_FallbackToPostLink ==
  /\ Filtered
  /\ Len(rq.args.organic_results) = 3
  /\ rq.args.organic_results[1].link = "https://example.com/foo"
  /\ rq.args.organic_results[2].link = "https://instagram.com/p/x1"
  /\ rq.args.organic_results[3].link = "instagram.com/foo"
  /\ Len(rq.value) = 1 /\ rq.value[1].fallback
  /\ rq.value[1].title = "result 2"

IndexSize == IF faiss_index = NoRecord THEN 0 ELSE Len(faiss_index.rows)

\* C19: after any sequence of build_faiss_index and load_faiss_index calls,
\* the ones that fail part-way included, the vector index and username_list
\* have equal length and index position i is the row of username_list[i].
C19_IndexKeysAligned ==
  /\ IndexSize = Len(username_list)
  /\ \A i \in 1..IndexSize : faiss_index.rows[i] = username_list[i]

Searched == rq.api = "helper" /\ rq.fn = "search_by_text"

\* the positions search_by_text has to answer for, in the order returned
KeptRanks(idxs_flat) ==
  SelectSeq([r \in 1..Len(idxs_flat) |-> r],
            LAMBDA r : idxs_flat[r] # NoMatch /\ idxs_flat[r] < Len(username_list))

\* C20: search_by_text never raises and never returns a key outside
\* username_list: a returned position equal to the no-match sentinel (-1) or
\* at or beyond len(username_list) is skipped, and every other returned
\* position p gives username_list[p] with its score, in the order the index
\* returned them.
C20_SearchSkipsBadPositions ==
  (Searched /\ faiss_index # NoRecord /\ username_list # <<>>) =>
    LET kept == KeptRanks(rq.args.idxs_flat)
    IN /\ ~rq.value.raised
       /\ Len(rq.value.results) = Len(kept)
       /\ \A i \in 1..Len(kept) :
            /\ rq.value.results[i].username = username_list[rq.args.idxs_flat[kept[i]] + 1]
            /\ rq.value.results[i].score = rq.args.scores_flat[kept[i]]
            /\ rq.value.results[i].username \in Range(username_list)

C20_SkippedBothKinds ==
  /\ Searched /\ ~rq.value.raised
  /\ IndexSize = 2 /\ Len(username_list) = 1
  /\ rq.args.idxs_flat = <<1, 0, NoMatch>>
  /\ Len(rq.value.results) = 1
  /\ rq.value.results[1].username = username_list[1]

Built == rq.api = "helper" /\ rq.fn = "build_faiss_index"

\* C21: build_faiss_index called with a non-empty N x D embedding matrix and a
\* list of N usernames completes successfully, and afterwards the index holds
\* exactly those N vectors and username_list is exactly those N usernames in
\* the given order, with nothing of an earlier index remaining.
C21_FullRebuildReplacesIndex ==
  Built =>
    /\ ~rq.value.raised
    /\ faiss_index = [rows |-> rq.args.usernames]
    /\ username_list = rq.args.usernames

Matched == rq.api = "helper" /\ rq.fn = "find_semantic_matches"

\* the vector path of find_semantic_matches was taken
OnVectorPath == faiss_index # NoRecord /\ username_list # <<>>

\* C22: every match returned by find_semantic_matches, on the vector path and
\* on the keyword-fallback path, has match_confidence within [0, 100]; on the
\* vector path it is the similarity score clamped to [0, 1] and multiplied by
\* 100.
C22_ConfidenceWithinBounds ==
  Matched =>
    \A i \in 1..Len(rq.value.matches) :
      LET m == rq.value.matches[i]
          score == m.semantic_match_score
      IN /\ 0 <= m.match_confidence /\ m.match_confidence <= 100
         /\ OnVectorPath =>
              m.match_confidence = IF score < 0 THEN 0 ELSE IF score > 100 THEN 100 ELSE score

C22_ClampedAtBothEnds ==
  /\ Matched /\ OnVectorPath
  /\ Len(rq.value.matches) = 2
  /\ rq.value.matches[1].semantic_match_score > 100
  /\ rq.value.matches[1].match_confidence = 100
  /\ rq.value.matches[2].semantic_match_score < 0
  /\ rq.value.matches[2].match_confidence = 0

\* the score the keyword scorer owes the i-th summary of the call
OwedScore(i) ==
  KeywordScore(Words(Lower(rq.args.product_description)), rq.args.influencer_data[i])

\* C23: when the vector index is absent or unbuilt, find_semantic_matches
\* uses the keyword-overlap scorer (30 per keyword found in the category, 15
\* per keyword found in some hashtag, 10 per keyword found in the bio) and
\* returns at most 8 influencers, each with a score greater than zero, in
\* non-increasing score order, and no omitted influencer has a higher score
\* than a returned one.
C23_FallbackTopEight ==
  (Matched /\ ~OnVectorPath) =>
    LET matches == rq.value.matches
        influencer_data == rq.args.influencer_data
        returned == {matches[k].influencer.username : k \in 1..Len(matches)}
    IN /\ ~rq.value.raised
       /\ Len(matches) <= 8
       /\ \A k \in 1..Len(matches) :
            /\ matches[k].semantic_match_score > 0
            /\ \E i \in 1..Len(influencer_data) :
                 /\ influencer_data[i] = matches[k].influencer
                 /\ matches[k].semantic_match_score = OwedScore(i)
       /\ \A k \in 1..(Len(matches) - 1) :
            matches[k].semantic_match_score >= matches[k + 1].semantic_match_score
       /\ \A i \in 1..Len(influencer_data) :
            influencer_data[i].username \notin returned =>
              \A k \in 1..Len(matches) : OwedScore(i) <= matches[k].semantic_match_score

C23_NinthScorerOmitted ==
  /\ Matched /\ ~OnVectorPath
  /\ Len(rq.args.influencer_data) = 9
  /\ \A i \in 1..9 : OwedScore(i) > 0
  /\ Len(rq.value.matches) = 8
  /\ rq.value.matches[1].influencer.username = "u6"
  /\ rq.value.matches[1].semantic_match_score = 55
  /\ rq.value.matches[8].semantic_match_score = 10

ScoreKeys == {"Authenticity", "BrandSafety", "AudienceMatch", "ContentQuality"}

\* C24: every profile record persisted by an enrichment run (with posts or
\* profile-only, scored by the LLM or by the fallback calculator) carries all
\* four scores Authenticity, BrandSafety, AudienceMatch and ContentQuality,
\* each within [0, 100] (0..1000 in tenths).
C24_PersistedScoresBounded ==
  \A i \in 1..Len(inserted) :
    LET scores == inserted[i].rec.analysis.scores
    IN /\ ScoreKeys \subseteq DOMAIN scores
       /\ \A key \in ScoreKeys : 0 <= scores[key] /\ scores[key] <= 1000

C24_LlmScoreClampedInRecord ==
  /\ ScoredByLlm /\ pc = "done"
  /\ rq.scoring_text # NoReply
  /\ "Content Quality: 170" \in Range(rq.scoring_text)
  /\ DictHas(inserted, InsertKey(rq.profile_data))
  /\ DictGet(inserted, InsertKey(rq.profile_data)).analysis.scores.ContentQuality = 1000
  /\ DictGet(inserted, InsertKey(rq.profile_data)).analysis.scores.Authenticity = 800

Calculated == rq.api = "helper" /\ rq.fn = "calculate_scores_manually"

\* the metrics of the call as the calculator reads them, defaults filled in
ReadMetrics ==
  IF rq.args.metrics = NoRecord
  THEN [consistencyScore |-> 7500, commentShare |-> 0, commentsPer10kViews |-> 0,
        hashtagCounts |-> {}]
  ELSE rq.args.metrics

\* 60 + 30*commentShare + min(20, commentsPer10kViews/5), clamped to
\* [0, 100], in hundredths
QualityOwed ==
  LET raw == 6000 + (ReadMetrics.commentShare * 30) \div 100
                  + (IF ReadMetrics.commentsPer10kViews * 20 < 2000
                     THEN ReadMetrics.commentsPer10kViews * 20 ELSE 2000)
  IN IF raw < 0 THEN 0 ELSE IF raw > 10000 THEN 10000 ELSE raw

\* clamp(consistencyScore, 0, 100), in hundredths
AuthenticityOwed ==
  IF ReadMetrics.consistencyScore < 0 THEN 0
  ELSE IF ReadMetrics.consistencyScore > 10000 THEN 10000
  ELSE ReadMetrics.consistencyScore

\* what C25 says besides the two clamped scores
CalculatedRest ==
  /\ rq.value.scores.BrandSafety = 850
  /\ rq.value.scores.AudienceMatch = (IF ReadMetrics.hashtagCounts # {} THEN 750 ELSE 700)
  /\ rq.value.again = rq.value.scores
  /\ rq.value.metrics = rq.args.metrics

\* C25: calculate_scores_manually is a pure function of the aggregated
\* metrics that returns Authenticity = clamp(consistencyScore, 0, 100),
\* BrandSafety = 85, AudienceMatch = 75 if at least one hashtag was observed
\* and 70 otherwise, and ContentQuality = clamp(60 + 30*commentShare +
\* min(20, commentsPer10kViews/5), 0, 100); called twice on the same metrics it
\* returns the same scores and it does not modify the metrics.
C25_ManualScoresExact ==
  Calculated =>
    /\ rq.value.scores.Authenticity * 10 = AuthenticityOwed
    /\ rq.value.scores.ContentQuality * 10 = QualityOwed
    /\ CalculatedRest

\* C25, amended: the same, with Authenticity and ContentQuality rounded to one
\* decimal place.
C25_ManualScoresRounded ==
  Calculated =>
    /\ rq.value.scores.Authenticity = (AuthenticityOwed + 5) \div 10
    /\ rq.value.scores.ContentQuality = (QualityOwed + 5) \div 10
    /\ CalculatedRest

C25_RoundedAuthenticity ==
  /\ Calculated
  /\ rq.args.metrics # NoRecord
  /\ rq.args.metrics.consistencyScore = 7654
  /\ rq.args.metrics.hashtagCounts # {}
  /\ rq.value.scores.Authenticity = 765
  /\ rq.value.scores.AudienceMatch = 750

\* the sources of the orchestrator's terminal outcomes
TerminalSource(source) ==
  \/ source \in {"not_influencer", "not_found", "scraping_failed"}
  \/ StartsWith(source, "main_db:@")
  \/ StartsWith(source, "embeddings:@")
  \/ StartsWith(source, "auto_scraped:@")

\* C26: find_influencer_anywhere never raises and never returns anything other
\* than a (found, data, source) triple: for every outcome of the external
\* calls and of the async runner, the case where every async execution
\* strategy fails included, the caller receives a triple describing one of the
\* orchestrator's terminal outcomes.
C26_AlwaysTriple ==
  (rq.api = "udm" /\ pc = "done") =>
    /\ result # NoTriple
    /\ TerminalSource(result.source)
    /\ result.found = (result.data # NoRecord)

\* an exception was raised inside a step of the async auto-scrape
AsyncStepRaised == \E i \in 1..Len(calls) : calls[i].op = "raise"

\* C27: when the async auto-scrape step fails unexpectedly (an exception
\* raised inside the async search, select, scrape or analyze steps), the
\* orchestrator falls back to the sync auto-scrape for the same query with the
\* corrected name and normalization already computed: the sync path starts
\* with its web search after the failure, and the resolver and the normalizer
\* are not invoked a second time.
C27_AsyncFailureFallsBackToSync ==
  (rq.api = "udm" /\ pc = "done" /\ AsyncStepRaised) =>
    LET at == CHOOSE i \in 1..Len(calls) : calls[i].op = "raise"
    IN /\ at < Len(calls)
       /\ calls[at + 1] = Call("search", rq.normalized.search_name)
       /\ Cardinality({i \in 1..Len(calls) : calls[i] = Call("llm", "spelling")}) = 1
       /\ Cardinality({i \in 1..Len(calls) : calls[i] = Call("llm", "normalization")}) = 1

ScrapedBothWays == rq.api = "helper" /\ rq.fn = "scrape_complete_instagram_profile"

\* C28: the async and sync scrape steps have matching behaviour: for every
\* combination of outcomes of the primary profile fetch, the primary posts
\* fetch and the alternative combined fetch,
\* scrape_complete_instagram_profile_async returns the same (profile, posts)
\* pair as scrape_complete_instagram_profile, the case where both primary
\* fetches fail and only the alternative fetch succeeds included.
C28_AsyncScrapeMatchesSync ==
  ScrapedBothWays =>
    /\ rq.value.async.profile = rq.value.sync.profile
    /\ rq.value.async.posts = rq.value.sync.posts

\* the async resolver got no reply from the LLM on any attempt and decided
\* by the heuristic
AsyncResolverUnanswered ==
  /\ rq.api = "udm" /\ rq.mode = "async"
  /\ rq.spelling # NoRecord
  /\ rq.spelling.reasoning = "AI spelling correction failed, using heuristic name detection"

\* C29: when the LLM transport fails inside spell_correct_influencer_name_async
\* on every attempt, the blocking form of the resolver (the sync LLM call) is
\* attempted before the heuristic decision is used, and no error surfaces to
\* the caller: the request has made a second resolver call to the LLM, and it
\* goes on or ends with a triple.
C29_BlockingResolverAttempted ==
  AsyncResolverUnanswered =>
    /\ Cardinality({i \in 1..Len(calls) : calls[i] = Call("llm", "spelling")}) >= 2
    /\ pc = "done" => result # NoTriple

\* the place of an event in calls, 0 when it has not happened
EventAt(op, arg) ==
  IF \E i \in 1..Len(calls) : calls[i] = Call(op, arg)
  THEN CHOOSE i \in 1..Len(calls) : calls[i] = Call(op, arg)
  ELSE 0

Happened(op, arg) == EventAt(op, arg) > 0

\* C30: in scrape_profile_and_posts_parallel_async the profile fetch and the
\* posts fetch are both started before either result is awaited, the step
\* produces its result only after both have completed, a failure of one does
\* not cancel or discard the result of the other, and the alternative combined
\* scraper is started only after both primary fetches have completed.  (That
\* they may complete in either order is what the witness shows.)
C30_ParallelFetchAndJoin ==
  rq.api = "parallel" =>
    /\ Happened("await", "gather") =>
         /\ Happened("create_task", "profile") /\ Happened("create_task", "posts")
         /\ EventAt("create_task", "profile") < EventAt("await", "gather")
         /\ EventAt("create_task", "posts") < EventAt("await", "gather")
    /\ \A t \in {"profile", "posts"} :
         Happened("complete", t) => EventAt("await", "gather") < EventAt("complete", t)
    /\ (rq.joined \/ rq.returned # NoRecord) =>
         /\ Happened("complete", "profile") /\ Happened("complete", "posts")
         /\ rq.profile_task.state = "done" /\ rq.posts_task.state = "done"
    /\ rq.returned # NoRecord =>
         /\ ~rq.profile_task.raised => rq.returned.profile = rq.profile_task.value.profile
         /\ (~rq.posts_task.raised /\ rq.posts_task.value.posts # <<>>) =>
              rq.returned.posts = rq.posts_task.value.posts
    /\ Happened("scrape_alternative", rq.username) =>
         /\ EventAt("complete", "profile") < EventAt("scrape_alternative", rq.username)
         /\ EventAt("complete", "posts") < EventAt("scrape_alternative", rq.username)
         /\ Happened("complete", "profile") /\ Happened("complete", "posts")

C30_PostsFirstProfileFailed ==
  /\ rq.api = "parallel" /\ pc = "done"
  /\ EventAt("create_task", "profile") < EventAt("create_task", "posts")
  /\ EventAt("start", "posts") < EventAt("complete", "profile")
  /\ EventAt("complete", "posts") < EventAt("complete", "profile")
  /\ rq.profile_task.raised /\ ~rq.posts_task.raised
  /\ rq.returned.profile = NoRecord
  /\ rq.returned.posts = <<Post1, Post2>>

OpenSessions == {i \in 1..Len(rq.closed) : ~rq.closed[i]}

\* C31: AsyncSessionManager keeps at most one open HTTP session at any time:
\* no session exists before the first get_session call, every get_session
\* call made while the session is open returns that same session, close()
\* leaves the session closed, and the first get_session after a close makes a
\* new open session.
C31_OneOpenSession ==
  rq.api = "session_manager" =>
    /\ Cardinality(OpenSessions) <= 1
    /\ rq.last.op = "__init__" => rq.session = 0 /\ rq.closed = <<>>
    /\ (rq.last.op = "get_session" /\ rq.last.was_open) =>
         /\ rq.last.returned = rq.last.before
         /\ Len(rq.closed) >= rq.last.before
    /\ rq.last.op = "get_session" =>
         /\ rq.session = rq.last.returned
         /\ OpenSessions = {rq.last.returned}
    /\ rq.last.op = "close" => OpenSessions = {}
    /\ (rq.last.op = "get_session" /\ ~rq.last.was_open) =>
         /\ rq.last.returned = Len(rq.closed)
         /\ rq.last.returned # rq.last.before

C31_SharedThenReopened ==
  /\ rq.api = "session_manager" /\ pc = "manager"
  /\ rq.last.op = "get_session" /\ rq.last.task = "profile"
  /\ rq.last.before = 1 /\ rq.last.returned = 2
  /\ rq.held["posts"] = 1 /\ rq.closed = <<TRUE, FALSE>>

MessageModelCalled == rq.api = "helper" /\ rq.fn = "message_model"

Attempts(events) == {i \in 1..Len(events) : events[i].op = "attempt"}

\* C32: one call of message_model or message_model_async makes at most
\* max_retries attempts at the LLM service, stops at and returns the first
\* non-empty completion, returns None after the last attempt has failed, and
\* does nothing but attempts and waits; with no API key or client it makes
\* no attempt and returns None.
C32_BoundedRetry ==
  MessageModelCalled =>
    LET a == rq.args
        events == rq.value.events
        n == Cardinality(Attempts(events))
        good(k) == a.outcomes[k].kind = "content" /\ Strip(a.outcomes[k].content) # ""
        available == a.key /\ (a.mode = "sync" => a.client)
    IN /\ n <= a.max_retries
       /\ \A i \in 1..Len(events) : events[i].op \in {"attempt", "sleep"}
       /\ \A k \in 1..n : \E i \in 1..Len(events) : events[i] = Call("attempt", k - 1)
       /\ ~available => n = 0 /\ events = <<>> /\ rq.value.content = None
       /\ available =>
            /\ \A k \in 1..a.max_retries :
                 (good(k) /\ \A j \in 1..(k - 1) : ~good(j)) =>
                   n = k /\ rq.value.content = Strip(a.outcomes[k].content)
            /\ (\A k \in 1..a.max_retries : ~good(k)) =>
                 n = a.max_retries /\ rq.value.content = None

C32_ThirdAttemptAnswers ==
  /\ MessageModelCalled
  /\ rq.args.max_retries = 3 /\ rq.args.key /\ rq.args.client
  /\ rq.args.outcomes[1].kind = "exception"
  /\ rq.args.outcomes[2] = [kind |-> "content", content |-> "  "]
  /\ rq.args.outcomes[3].content = " ok "
  /\ rq.value.content = "ok"
  /\ Cardinality(Attempts(rq.value.events)) = 3

\* C33: in message_model and message_model_async every retry is preceded by a
\* backoff wait of 2^k seconds after the k-th failed attempt (k = 0, 1),
\* whatever the kind of failure of the previous attempt, and no wait follows
\* the last attempt.
C33_BackoffBeforeEveryRetry ==
  MessageModelCalled =>
    LET events == rq.value.events
    IN /\ \A i \in 1..Len(events) :
            (events[i].op = "attempt" /\ events[i].arg >= 1) =>
              /\ i >= 3
              /\ events[i - 1] = Call("sleep", 2 ^ (events[i].arg - 1))
              /\ events[i - 2] = Call("attempt", events[i].arg - 1)
       /\ Len(events) > 0 => events[Len(events)].op = "attempt"

\* what a caller and the collaborators can see of a run
Observable(run) ==
  [pc |-> run.pc, found |-> run.found, source |-> run.source, calls |-> run.calls,
   writes |-> run.writes]

\* C34: for the same query and the same responses of the collaborators, the
\* orchestrator's returned outcome, its sequence of external calls and its
\* store writes are the same with no progress callback, with a callback, and
\* with a callback that raises on every invocation.
C34_ProgressDoesNotAlterFlow ==
  rq.api = "progress" =>
    \A c1 \in ProgressCallbacks, c2 \in ProgressCallbacks :
      Observable(rq.run[c1]) = Observable(rq.run[c2])

C34_ScrapedUnderRaisingCallback ==
  /\ rq.api = "progress" /\ pc = "done"
  /\ rq.run["raises"].source = "auto_scraped" /\ rq.run["raises"].found
  /\ rq.run["raises"].writes = <<"save_database">>
  /\ rq.run["raises"].progress = <<>>
  /\ rq.run["none"].progress = <<>>
  /\ rq.run["set"].progress = <<10, 20, 30, 40, 45, 50, 55, 60, 65, 70, 75, 85, 90, 95, 100>>

SyncRunDone == rq.api = "udm" /\ rq.mode = "sync" /\ pc = "done"

\* the steps a run of the orchestrator can be at
RunSteps == {"resolve", "normalize", "lookup", "search", "select", "scrape", "persist"}

\* C35: every run of _find_influencer_anywhere_sync, whatever the outcomes of
\* the LLM, the web search, the scraper and the store write, ends in exactly
\* one of not_influencer, not_found, scraping_failed, main_db:@u, embeddings:@u
\* or auto_scraped:@u; found is true exactly for the last three and data is
\* non-null exactly when found is true.  A run that has not ended is at one of
\* its steps and has no outcome yet.
C35_SyncRunEndsInOneOutcome ==
  /\ SyncRunDone =>
       /\ TerminalSource(result.source)
       /\ result.found = (\/ StartsWith(result.source, "main_db:@")
                         \/ StartsWith(result.source, "embeddings:@")
                         \/ StartsWith(result.source, "auto_scraped:@"))
       /\ result.found = (result.data # NoRecord)
  /\ (rq.api = "udm" /\ rq.mode = "sync" /\ pc # "done") =>
       /\ pc \in RunSteps /\ result = NoResult

C35_WriteFailedEndsScrapingFailed ==
  /\ SyncRunDone
  /\ result.source = "scraping_failed" /\ ~result.found /\ result.data = NoRecord
  /\ \E i \in 1..Len(calls) : calls[i].op = "write" /\ ~save_database_returns(calls[i].arg)

FilteredMalformed ==
  rq.api = "helper" /\ rq.fn = "build_search_query_and_filter_candidates of malformed"

\* C36: a malformed entry in the organic results (no record, or a record with
\* a missing or unparsable link) never makes
\* build_search_query_and_filter_candidates raise: the entry is skipped and the
\* other entries are processed as if it were absent, in the strict pass and in
\* the fallback pass.
C36_MalformedEntriesSkipped ==
  FilteredMalformed =>
    /\ ~rq.value.all.raised
    /\ rq.value.all.candidates = rq.value.wellformed.candidates

\* the lines of a reply that begin with one of the four field names
KnownLines(response) ==
  SelectSeq(ReplyLines(response),
            LAMBDA line : \/ StartsWith(line, "Is Influencer:")
                          \/ StartsWith(line, "Corrected Name:")
                          \/ StartsWith(line, "Confidence:")
                          \/ StartsWith(line, "Reasoning:"))

\* C37: for every query and every LLM reply (empty, malformed, or with an
\* out-of-range confidence), the resolver returns a result with is_influencer,
\* corrected_name, original_query, confidence and reasoning, whose confidence
\* lies within [0, 1]; lines of the reply that begin with no known field name
\* are ignored.
C37_ResolverResultPopulated ==
  Resolved =>
    LET query == rq.args.query
        response == rq.args.response
    IN /\ DOMAIN rq.value =
            {"is_influencer", "corrected_name", "original_query", "confidence", "reasoning"}
       /\ rq.value.is_influencer \in BOOLEAN
       /\ rq.value.confidence \in 0..100
       /\ rq.value.original_query = query
       /\ rq.value.corrected_name # "" /\ rq.value.corrected_name # None
       /\ rq.value.reasoning # None
       /\ parse_spelling_correction_response(response, query).confidence \in 0..100
       /\ parse_spelling_correction_response(response, query)
            = parse_spelling_correction_response(KnownLines(response), query)

C37_HugeConfidenceClamped ==
  /\ Resolved
  /\ rq.args.response = <<"Here you go:", "Confidence: 250", "Is Influencer: yes">>
  /\ rq.value.confidence = 100 /\ rq.value.is_influencer
  /\ rq.value.corrected_name = rq.args.query

Aggregated == rq.api = "helper" /\ rq.fn = "aggregate_post_metrics"

\* C38: for every non-empty list of analyzed posts, aggregate_post_metrics
\* reports organicPct equal to 100 times the number of posts not marked as ads
\* divided by the number of posts (postsAnalyzed), also when some organic posts
\* have no likes and no comments.
C38_OrganicPctCountsOrganicPosts ==
  Aggregated =>
    LET posts == rq.args.posts
        organic == {i \in 1..Len(posts) : ~posts[i].isAd}
    IN /\ rq.value.postsAnalyzed = Len(posts)
       /\ rq.value.organicPct = (100 * Cardinality(organic)) \div rq.value.postsAnalyzed

\* C39: whenever an enrichment run ends in a failure outcome (scraping_failed),
\* that run has not added or changed any profile record in the store: the
\* stored profiles and their contents are the same as before the run.
C39_FailedRunLeavesStore ==
  (rq.api = "udm" /\ pc = "done" /\ result.source = "scraping_failed") =>
    get_database = pre

\* the local lookups of the request are over and none of them hit
MissedLocally ==
  /\ rq.api = "udm"
  /\ HasCall({"main_lookup_miss"})
  /\ ~HasCall({"main_lookup_hit", "embeddings_lookup_hit"})

\* C40: when auto-scraping is disabled (toggle_auto_scraping(False), or
\* auto_scrape = False passed by the caller), a query that misses both local
\* stores ends with the not_found outcome, and no web search, no scrape call
\* and no store write happens; with auto-scraping enabled again and
\* auto_scrape = True, a query that misses goes on to the web search.
C40_DisabledAutoScrapeNotFound ==
  /\ (MissedLocally /\ ~(rq.auto_scrape /\ auto_scraping_enabled)) =>
       /\ pc = "done"
       /\ result = [found |-> FALSE, data |-> NoRecord, source |-> "not_found"]
       /\ ~HasCall(ScrapeOps \cup {"search", "write"})
       /\ get_database = pre
  /\ (MissedLocally /\ rq.auto_scrape /\ auto_scraping_enabled) =>
       /\ result.source # "not_found"
       /\ pc = "search" \/ HasCall({"search", "raise"})

C40_ToggledOffThenMiss ==
  /\ MissedLocally /\ pc = "done"
  /\ rq.auto_scrape /\ ~auto_scraping_enabled
  /\ runs = 2
  /\ result.source = "not_found"
====
